---------------------------- MODULE Spec2Model ----------------------------
(***************************************************************************)
(* The Controller of the gateway (controller.ts, kept in src/Dockerfile    *)
(* from line 33 on) as a state machine.  JavaScript runs one task at a     *)
(* time: the code between two awaits is one atomic step, so every action   *)
(* below is the piece of a coroutine from one suspension point to the      *)
(* next.  A call that is awaited (adapter start, broker connect, a hook)   *)
(* is "in flight" between the step that makes it and the step in which it  *)
(* returns or throws; which of the two it does is the environment's        *)
(* choice.                                                                 *)
(***************************************************************************)
EXTENDS Integers, Sequences, FiniteSets, TLC

\* ------------------------------------------------------------- bounds
\* Failures of adapter start / broker connect that are counted (the count
\* saturates; the retry loop itself is unbounded).
MaxFail == 2
\* stop() calls that are accepted and run a shutdown coroutine.
MaxStops == 2
\* enableDisableExtension requests made at run time by extensions.
MaxToggle == 1
\* Subscriptions made on the EventBus over its life.
MaxSubs == 3
\* Calls of restart() of index.js.
MaxRestarts == 2
\* Management requests that reach a device handler.
MaxRequests == 2
\* Message-published events the Frontend is handed.
MaxPublished == 3

\* ------------------------------------------------------------- catalog
\* AllExtensions, cut down to four of its eighteen types.
AllExtensions == {"Bridge", "Frontend", "BridgeLegacy", "HomeAssistant"}
\* A name an operator may pass that is no extension type.
UnknownName == "Nope"
\* The names run-time enable/disable requests are made with.
ToggleNames == {"BridgeLegacy", UnknownName}
\* The types of the instances extensions hand to addExtension.
AddNames == {"External", "BridgeLegacy"}
\* The reason strings index.js passes to stop: a quit passes null, restart
\* passes indexJsRestart.
indexJsRestart == "indexjs.restart"
Reasons == {"null", indexJsRestart}
Devices == {"d1", "d2"}
\* The devices that have an entry in the State cache.
CachedDevices == {"d1"}

VARIABLES
    status,                  \* this.status
    extensions,              \* this.extensions: sequence of instances <<type, serial>>
    settings,                \* the configuration options the Controller reads
    startPc,                 \* where the start() coroutine is suspended
    startResult,             \* let startResult
    loggedZigbeeStartError,  \* let loggedZigbeeStartError
    loggedMqttStartError,    \* let loggedMqttStartError
    startExts,               \* the copy [...this.extensions] start() iterates
    startIdx,                \* index in startExts of the start hook in flight
    stops,                   \* the stop() coroutines, by slot
    disabling,               \* enableDisableExtension(false) coroutines awaiting a stop hook
    toggles,                 \* run-time enable/disable/add requests made so far
    toggleLog,               \* the enable/disable/add calls so far, in order:
                             \* <<kind, name, whether the name was found>>
    mqttConnected,           \* mqtt.isConnected()
    mqttFirst,               \* mqtt.isFirstConnection()
    adapterSub,              \* Controller subscribed to adapter-disconnected
    lastSeenSub,             \* Controller subscribed to last-seen-changed
    zigbeeFails,             \* failed adapter starts of this startup (saturating)
    mqttFails,               \* failed broker connects of this startup (saturating)
    zigbeeErrLogs,           \* times the adapter-start failure was error-logged
    mqttErrLogs,             \* times the broker-connect failure was error-logged
    startLog,                \* what start() has done so far, in order: a milestone
                             \* <<name, 0>> or the instance whose start hook it invoked
    replayed,                \* devices whose cached state start() republished
    exits,                   \* exitCallback invocations <<code, reason>>, in order
    stopAt,                  \* where start() was when the first stop() was accepted:
                             \* the backoff it waited in, or "other"
    replaced,                \* index.js has constructed and started a new Controller
    pubSettings,             \* the configuration options publishEntityState reads
    cache,                   \* the State cache: the attribute bag of each entity
    runs,                    \* the publishEntityState coroutines, by slot
    tracked,                 \* whether the runs the Controller starts itself (the
                             \* replay, the last-seen handler) are followed in runs
    bus,                     \* this.eventBus: its subscriptions and its last emit
    restarting,              \* index.js: let restarting
    stopping,                \* index.js: let stopping
    controller,              \* index.js: let controller, by instance number
    instances,               \* the Controllers index.js has constructed
    restarts,                \* the restart() coroutines of index.js
    exited,                  \* process.exit has been called
    requests,                \* the management requests being handled
    store,                   \* what the device handlers read and write
    frontend,                \* the Frontend extension: retainedMessages, wss, clients
    step                     \* the last step: its operation and the calls it made

vars == <<status, extensions, settings, startPc, startResult,
          loggedZigbeeStartError, loggedMqttStartError, startExts, startIdx,
          stops, disabling, toggles, toggleLog, mqttConnected, mqttFirst, adapterSub,
          lastSeenSub, zigbeeFails, mqttFails, zigbeeErrLogs, mqttErrLogs,
          startLog, replayed, exits, stopAt, replaced, pubSettings, cache, runs,
          tracked, bus, restarting, stopping, controller, instances, restarts,
          exited, requests, store, frontend, step>>

\* The variables of index.js, and those no step of the Controller writes.
idxVars == <<restarting, stopping, controller, instances, restarts, exited,
             requests, store>>

auxVars == <<tracked, bus, idxVars, frontend>>

\* The variables of the publication pipeline, and the others but step.
pubVars == <<pubSettings, cache, runs>>

\* The variables of the Controller's life cycle.
coreVars == <<status, extensions, settings, startPc, startResult,
              loggedZigbeeStartError, loggedMqttStartError, startExts,
              startIdx, stops, disabling, toggles, toggleLog, mqttConnected,
              mqttFirst, adapterSub, lastSeenSub, zigbeeFails, mqttFails,
              zigbeeErrLogs, mqttErrLogs, startLog, replayed, exits, stopAt,
              replaced>>

ctlVars == <<status, extensions, settings, startPc, startResult,
             loggedZigbeeStartError, loggedMqttStartError, startExts,
             startIdx, stops, disabling, toggles, toggleLog, mqttConnected, mqttFirst,
             adapterSub, lastSeenSub, zigbeeFails, mqttFails, zigbeeErrLogs,
             mqttErrLogs, startLog, replayed, exits, stopAt, replaced, auxVars>>

Slots == 1..MaxStops

\* ------------------------------------------------------------- helpers
Min(a, b) == IF a < b THEN a ELSE b

Range(s) == {s[i] : i \in 1..Len(s)}

IsPrefix(s, t) == Len(s) <= Len(t) /\ \A i \in 1..Len(s) : s[i] = t[i]

TypeOf(inst) == inst[1]

\* Array.prototype.indexOf: the first index holding x, 0 (for -1) when none.
IndexOf(s, x) ==
    IF x \in Range(s) THEN CHOOSE i \in 1..Len(s) : s[i] = x /\ \A j \in 1..(i-1) : s[j] # x
    ELSE 0

\* Array.prototype.find by constructor name: <<>> when none, else <<instance>>.
FindByName(s, name) ==
    IF \E i \in 1..Len(s) : TypeOf(s[i]) = name
    THEN <<s[CHOOSE i \in 1..Len(s) : TypeOf(s[i]) = name
                /\ \A j \in 1..(i-1) : TypeOf(s[j]) # name]>>
    ELSE <<>>

RemoveAt(s, i) == SubSeq(s, 1, i-1) \o SubSeq(s, i+1, Len(s))

\* this.extensions.splice(index, 1), index being what indexOf returned: a
\* negative index counts from the end of the array, so -1 takes the last one.
Splice1(s, idx) ==
    IF s = <<>> THEN s
    ELSE IF idx = 0 THEN RemoveAt(s, Len(s)) ELSE RemoveAt(s, idx)

\* The list the constructor builds: the fixed extensions, then the optional
\* ones the configuration enables; .filter((n) => n) drops the disabled.
InitialExtensions(cfg) ==
    <<<<"Bridge", 0>>, <<"Frontend", 0>>>>
        \o (IF cfg.legacy_api THEN <<<<"BridgeLegacy", 0>>>> ELSE <<>>)
        \o (IF cfg.homeassistant THEN <<<<"HomeAssistant", 0>>>> ELSE <<>>)

FreeStop == [pc |-> "free", idx |-> 0, reason |-> "null", seen |-> <<>>]

Did(op, calls) == step' = [op |-> op, calls |-> calls]

Settings == [legacy_api : BOOLEAN, homeassistant : BOOLEAN, last_seen : BOOLEAN,
             cache_send : BOOLEAN]

\* --------------------------------------------- publication pipeline data
\* A JavaScript object is the sequence of its <<key, value>> entries in
\* insertion order, the order Object.entries and JSON encoding follow.  A
\* value is a string <<"str", s>>, a number <<"num", n>>, an array
\* <<"arr", elements>>, null, undefined or a nested object <<"obj", entries>>.
Str(x) == <<"str", x>>

Num(n) == <<"num", n>>

Arr(a) == <<"arr", a>>

Null == <<"null">>

Undefined == <<"undefined">>

Obj(o) == <<"obj", o>>

ObjHas(o, k) == \E i \in 1..Len(o) : o[i][1] = k

\* o[k], for a key o has.
ObjGet(o, k) == o[CHOOSE i \in 1..Len(o) : o[i][1] = k][2]

\* o[k] = v: an existing key keeps its place, a new key goes last.
ObjSet(o, k, v) ==
    IF ObjHas(o, k)
    THEN [i \in 1..Len(o) |-> IF o[i][1] = k THEN <<k, v>> ELSE o[i]]
    ELSE Append(o, <<k, v>>)

\* delete o[k]
ObjDelete(o, k) == SelectSeq(o, LAMBDA p : p[1] # k)

\* {...o, ...src}: the entries of src written over o, one by one.
RECURSIVE ObjAssign(_, _)
ObjAssign(o, src) ==
    IF src = <<>> THEN o
    ELSE ObjAssign(ObjSet(o, src[1][1], src[1][2]), Tail(src))

Groups == {"g1"}
\* The entities publishEntityState is called for.
Entities == {"d1"} \cup Groups

IsDevice(e) == e \in Devices

\* entity.settings.filtered_attributes
FilteredAttributes(e) == IF e = "d1" THEN <<"battery">> ELSE <<>>

\* entity.zh.linkquality; "undefined" when the adapter has none.
Linkquality(e) == IF e = "d1" THEN Str("lq") ELSE "undefined"

\* entity.zh.lastSeen is set.
HasLastSeen(e) == e = "d1"

\* The payloads publishEntityState is called with.
Payloads == {<<>>,
             <<<<"battery", Str("a")>>>>,
             <<<<"state", Str("b")>>, <<"battery", Str("a")>>>>}

PubReasons == {"undefined", "lastSeenChanged"}

Outputs == {"json", "attribute", "attribute_and_json"}

\* advanced.cache_state, experimental.output, mqtt.include_device_information
PubSettings == [cache_state : BOOLEAN, output : Outputs,
                include_device_information : BOOLEAN]

DefaultPubSettings ==
    [cache_state |-> TRUE, output |-> "json", include_device_information |-> FALSE]

\* What an adjustMessageBeforePublish hook does with the message it is
\* handed: nothing (or the extension has no such hook), write one attribute
\* into it, or throw.
HookActs == {"none", "set", "throw"}
HookKey == "battery"
HookValue == Str("h")

RunOrder == <<"r1", "r2">>
RunIds == {RunOrder[i] : i \in 1..Len(RunOrder)}

IdleRun == [pc |-> "idle", entity |-> "none", payload |-> <<>>,
            reason |-> "undefined", message |-> <<>>, leaves |-> <<>>,
            idx |-> 0, out |-> <<>>]

\* The State cache at construction: the entries read from the state file.
InitialCache ==
    [e \in Entities |-> IF e \in CachedDevices THEN <<<<"state", Str("a")>>>> ELSE <<>>]

\* ------------------------------------------------------- EventBus data
\* The event kinds and subscriber keys followed: the Controller subscribes
\* under itself (L145, L234), the Frontend under itself (L428).
EventKinds == {"adapterDisconnected", "lastSeenChanged"}
SubscriberKeys == {"controller", "frontend"}

\* new EventBus(...) (L86): no subscription, nothing emitted yet.
NewEventBus ==
    [subs |-> <<>>, serial |-> 0, removed |-> {}, kind |-> "none",
     invoked |-> <<>>, logged |-> 0]

\* ------------------------------------------------------- index.js data
RestartIds == 1..MaxRestarts
RequestIds == 1..MaxRequests
\* Every restart() constructs one more Controller.
ControllerIds == 1..(MaxRestarts + 1)

\* A Controller not constructed yet.
NoInstance == [status |-> "none", reason |-> "null", exit |-> FALSE]

FreeRestart == [pc |-> "free", on |-> 0]

FreeRequest == [pc |-> "free", route |-> "none", id |-> "none",
                connected |-> FALSE, code |-> 0, log |-> <<>>]

\* The ids requests are made with: the devices, a group, an unknown id.
RequestIdents == Devices \cup {"g1", "zz"}

\* index.js once loaded (L12-15) and start() has constructed the first
\* Controller (L101-102); the devices joined, configured and cached.
Loaded ==
    /\ restarting = FALSE
    /\ stopping = FALSE
    /\ controller = 1
    /\ instances = [n \in ControllerIds |->
                        IF n = 1 THEN [NoInstance EXCEPT !.status = "stopped"]
                        ELSE NoInstance]
    /\ restarts = [r \in RestartIds |-> FreeRestart]
    /\ exited = FALSE
    /\ requests = [q \in RequestIds |-> FreeRequest]
    /\ store = [zigbee |-> Devices, settings |-> Devices, state |-> CachedDevices,
                blocklist |-> {}, events |-> <<>>]

\* ------------------------------------------------------- Frontend data
\* A topic is the sequence of its characters.  settings.get().mqtt.base_topic
\* (L418), and the topics of the messages published: two under it, one
\* that only starts with its characters, one elsewhere, and the base itself.
MqttBaseTopic == <<"z">>
PublishedTopics == {<<"z", "/", "a">>, <<"z", "/", "b">>, <<"z", "x", "/", "a">>,
                    <<"y", "/", "a">>, <<"z">>}
\* The payloads published: a text that is no JSON, and a JSON number.
PublishedPayloads == {"ON", "10"}
WsClients == {"c1"}

\* The Frontend as its field initialisers leave it (L418-422).
NewFrontend ==
    [retainedMessages |-> <<>>, wss |-> FALSE,
     clients |-> [c \in WsClients |-> "none"], sent |-> <<>>, published |-> <<>>]

\* The Controller as its constructor leaves it, under configuration cfg
\* and pipeline options pcfg, in the process that constructed it.
Constructed(cfg, pcfg) ==
    /\ frontend = NewFrontend
    /\ bus = NewEventBus
    /\ Loaded
    /\ settings = cfg
    /\ pubSettings = pcfg
    /\ cache = InitialCache
    /\ runs = [r \in RunIds |-> IdleRun]
    /\ status = "stopped"
    /\ extensions = InitialExtensions(settings)
    /\ startPc = "idle"
    /\ startResult = "none"
    /\ loggedZigbeeStartError = FALSE
    /\ loggedMqttStartError = FALSE
    /\ startExts = <<>>
    /\ startIdx = 0
    /\ stops = [s \in Slots |-> FreeStop]
    /\ disabling = <<>>
    /\ toggles = 0
    /\ toggleLog = <<>>
    /\ mqttConnected = FALSE
    /\ mqttFirst = TRUE
    /\ adapterSub = FALSE
    /\ lastSeenSub = FALSE
    /\ zigbeeFails = 0
    /\ mqttFails = 0
    /\ zigbeeErrLogs = 0
    /\ mqttErrLogs = 0
    /\ startLog = <<>>
    /\ replayed = {}
    /\ exits = <<>>
    /\ stopAt = "none"
    /\ replaced = FALSE
    /\ step = [op |-> "new", calls |-> {}]

Init == tracked = FALSE /\ \E cfg \in Settings : Constructed(cfg, DefaultPubSettings)


\* ------------------------------------ publication pipeline: one call
\* State.set (not in the sources at hand): merges the payload into the
\* entity's bag and returns the resulting full bag.
StateSet(c, e, payload) == ObjAssign(c[e], payload)

\* entity.settings.filtered_attributes.forEach((a) => delete message[a])
RECURSIVE Filter(_, _)
Filter(m, attrs) ==
    IF attrs = <<>> THEN m ELSE Filter(ObjDelete(m, attrs[1]), Tail(attrs))

\* A message that starts from the payload whatever the cache_state option.
BuildMessageAlwaysPayload(e, payload, newState, cfg, pcfg) ==
    LET m1 == IF IsDevice(e) /\ pcfg.include_device_information
              THEN ObjSet(payload, "device", Obj(<<<<"friendlyName", Str(e)>>>>))
              ELSE payload
        m2 == IF IsDevice(e) /\ cfg.last_seen /\ HasLastSeen(e)
              THEN ObjSet(m1, "last_seen", Str("t"))
              ELSE m1
        m3 == IF IsDevice(e) /\ Linkquality(e) # "undefined"
              THEN ObjSet(m2, "linkquality", Linkquality(e))
              ELSE m2
    IN  Filter(m3, FilteredAttributes(e))

\* The message as L293-338 build it: the payload or the full bag, the device
\* block, last_seen and linkquality, less the filtered attributes.  The
\* device block stands with one of its fields.
BuildMessage(e, payload, newState, cfg, pcfg) ==
    LET m0 == IF pcfg.cache_state THEN newState ELSE payload
        m1 == IF IsDevice(e) /\ pcfg.include_device_information
              THEN ObjSet(m0, "device", Obj(<<<<"friendlyName", Str(e)>>>>))
              ELSE m0
        m2 == IF IsDevice(e) /\ cfg.last_seen /\ HasLastSeen(e)
              THEN ObjSet(m1, "last_seen", Str("t"))
              ELSE m1
        m3 == IF IsDevice(e) /\ Linkquality(e) # "undefined"
              THEN ObjSet(m2, "linkquality", Linkquality(e))
              ELSE m2
    IN  Filter(m3, FilteredAttributes(e))

\* The loop over the adjust hooks (L340-342), acts[i] being what the hook of
\* the i-th extension does: the hooks share the one message object, and
\* a throw ends the loop and the call.
RECURSIVE Adjust(_, _, _)
Adjust(m, acts, i) ==
    IF i > Len(acts) THEN [message |-> m, threw |-> FALSE]
    ELSE IF acts[i] = "throw" THEN [message |-> m, threw |-> TRUE]
    ELSE Adjust(IF acts[i] = "set" THEN ObjSet(m, HookKey, HookValue) ELSE m,
                acts, i + 1)

\* utils.objectHasProperties(v, props) (not in the sources at hand): v is
\* an object that has every property of props.
ObjectHasProperties(v, props) ==
    v[1] = "obj" /\ \A i \in 1..Len(props) : ObjHas(v[2], props[i])

\* `${x}` for an array element x (L373).
Template(x) ==
    IF x[1] = "str" THEN x[2]
    ELSE IF x[1] = "num" THEN ToString(x[2])
    ELSE x[1]

\* a.map((x) => `${x}`).join(',')   (L373)
RECURSIVE Join(_)
Join(a) ==
    IF a = <<>> THEN ""
    ELSE IF Len(a) = 1 THEN Template(a[1])
    ELSE Template(a[1]) \o "," \o Join(Tail(a))

\* stringify(v) for a value that is neither null, an array, an object nor
\* a string (L377): the JSON text of a number.
Stringify(v) == ToString(v[2])

\* The keys of a path as iteratePayloadAttributeOutput joins them into the
\* topic: `${topicRoot}${key}-` on the way down (L375), `${topicRoot}${key}`
\* at the leaf (L381).
RECURSIVE Suffix(_)
Suffix(path) ==
    IF Len(path) = 1 THEN path[1] ELSE path[1] \o "-" \o Suffix(Tail(path))

\* An iteration that knows no special case for colours.
RECURSIVE LeavesNoColour(_, _)
LeavesNoColour(root, o) ==
    IF o = <<>> THEN <<>>
    ELSE LET k == o[1][1]
             sub == o[1][2]
             path == Append(root, k)
         IN  (IF sub[1] \in {"null", "undefined"} THEN <<<<path, "">>>>
              ELSE IF sub[1] = "arr" THEN <<<<path, Join(sub[2])>>>>
              ELSE IF sub[1] = "obj" THEN LeavesNoColour(path, sub[2])
              ELSE <<<<path, IF sub[1] = "str" THEN sub[2] ELSE Stringify(sub)>>>>)
             \o LeavesNoColour(root, Tail(o))

\* The leaves iteratePayloadAttributeOutput publishes, in its order, each
\* <<key path, body>> (L360-383): under the key 'color' an object with r, g
\* and b stands for the array of the three; null and undefined give an
\* empty body, an array its elements joined by commas, a string itself,
\* a number its text; a nested object gives no message of its own and is
\* walked with its key added to the path.
RECURSIVE Leaves(_, _)
Leaves(root, o) ==
    IF o = <<>> THEN <<>>
    ELSE LET k == o[1][1]
             v == o[1][2]
             sub == IF k = "color" /\ ObjectHasProperties(v, <<"r", "g", "b">>)
                    THEN Arr(<<ObjGet(v[2], "r"), ObjGet(v[2], "g"), ObjGet(v[2], "b")>>)
                    ELSE v
             path == Append(root, k)
         IN  (IF sub[1] \in {"null", "undefined"} THEN <<<<path, "">>>>
              ELSE IF sub[1] = "arr" THEN <<<<path, Join(sub[2])>>>>
              ELSE IF sub[1] = "obj" THEN Leaves(path, sub[2])
              ELSE <<<<path, IF sub[1] = "str" THEN sub[2] ELSE Stringify(sub)>>>>)
             \o Leaves(root, Tail(o))

\* What a run hands to the broker or to the EventBus.
JsonDoc(e, m) == [kind |-> "json", entity |-> e, topic |-> e, path |-> <<>>,
                  body |-> m, reason |-> "undefined"]

AttrMsg(e, leaf) == [kind |-> "attribute", entity |-> e,
                     topic |-> e \o "/" \o Suffix(leaf[1]), path |-> leaf[1],
                     body |-> leaf[2], reason |-> "undefined"]

StateEvent(e, m, reason) == [kind |-> "event", entity |-> e, topic |-> "",
                             path |-> <<>>, body |-> m, reason |-> reason]

\* The record of a run after emitPublishEntityState (L356).
Emitted(rec) ==
    [rec EXCEPT !.pc = "done",
                !.out = Append(rec.out,
                               StateEvent(rec.entity, rec.message, rec.reason))]

\* publishEntityState(e, payload, reason) from its first line to its first
\* await (L293-347 or L351), or to its end when nothing is to be published:
\* the bag state.set leaves in the cache, the record of the run and the
\* calls made.  acts[i] is what the adjust hook of the i-th extension does.
FirstSegment(e, payload, reason, acts) ==
    LET newState == StateSet(cache, e, payload)
        adj == Adjust(BuildMessage(e, payload, newState, settings, pubSettings),
                      acts, 1)
        m == adj.message
        leaves == Leaves(<<>>, m)
        rec == [IdleRun EXCEPT !.entity = e, !.payload = payload,
                               !.reason = reason, !.message = m,
                               !.leaves = leaves]
        calls == {"state.set", "adjustMessageBeforePublish"}
    IN  [newState |-> newState,
         rec |-> IF adj.threw THEN [rec EXCEPT !.pc = "threw"]
                 ELSE IF m = <<>> THEN Emitted(rec)
                 ELSE IF pubSettings.output \in {"attribute_and_json", "json"}
                 THEN [rec EXCEPT !.pc = "json", !.out = <<JsonDoc(e, m)>>]
                 ELSE IF leaves = <<>> THEN Emitted(rec)
                 ELSE [rec EXCEPT !.pc = "attr", !.idx = 1,
                                  !.out = <<AttrMsg(e, leaves[1])>>],
         calls |-> IF adj.threw THEN calls
                   ELSE IF m = <<>> \/ (pubSettings.output = "attribute" /\ leaves = <<>>)
                   THEN calls \cup {"emitPublishEntityState"}
                   ELSE calls \cup {"mqtt.publish"}]

\* The slots no call has taken yet, in order.
IdleSlots == SelectSeq(RunOrder, LAMBDA r : runs[r].pc = "idle")

\* zigbee.devices(false) (L168), in the adapter's order.
DeviceOrder == <<"d1", "d2">>

\* The devices state.exists holds for, in that order (L226-227).
ReplayOrder == SelectSeq(DeviceOrder, LAMBDA d : d \in CachedDevices)

\* A replay that asks for cache_state_send_on_startup alone.
ReplayOnSendOnly == settings.cache_send

\* advanced.cache_state_send_on_startup && advanced.cache_state (L225)
ReplayOn == settings.cache_send /\ pubSettings.cache_state

\* The loop L226-230: one un-awaited publishEntityState(device,
\* state.get(device)) per device with a cache entry, each run to its first
\* await before the next is called.  The i-th call takes the i-th idle slot;
\* a call that finds none is made but not followed.
Replay ==
    IF tracked /\ ReplayOn
    THEN \E acts \in [1..Len(ReplayOrder) -> [1..Len(extensions) -> HookActs]] :
             LET n == Min(Len(ReplayOrder), Len(IdleSlots))
                 seg(i) == FirstSegment(ReplayOrder[i], cache[ReplayOrder[i]],
                                        "undefined", acts[i])
             IN  /\ runs' = [r \in RunIds |->
                                IF \E i \in 1..n : IdleSlots[i] = r
                                THEN seg(CHOOSE i \in 1..n : IdleSlots[i] = r).rec
                                ELSE runs[r]]
                 /\ cache' = [e \in Entities |->
                                 IF \E i \in 1..Len(ReplayOrder) : ReplayOrder[i] = e
                                 THEN seg(CHOOSE i \in 1..Len(ReplayOrder) :
                                              ReplayOrder[i] = e).newState
                                 ELSE cache[e]]
    ELSE UNCHANGED <<cache, runs>>

\* ------------------------------------------------------ start(): L125-237
Milestone(name) == <<name, 0>>

\* The locals of start() that steer the logging, and what is observed of
\* them; they are those of the startup in progress and go with its return.
locals == <<loggedZigbeeStartError, loggedMqttStartError, zigbeeFails,
            mqttFails, zigbeeErrLogs, mqttErrLogs>>

DropLocals ==
    /\ loggedZigbeeStartError' = FALSE
    /\ loggedMqttStartError' = FALSE
    /\ zigbeeFails' = 0
    /\ mqttFails' = 0
    /\ zigbeeErrLogs' = 0
    /\ mqttErrLogs' = 0

\* Everything start() never writes once it is past its first line.
startFrame == <<extensions, stops, toggles, exits, stopAt, replaced, pubSettings,
               auxVars>>

\* A guard that only refuses a start while another start is in progress.
StartGuardOnlyStarting(s) == s # "starting"

\* if (this.status !== 'stopped') return;   (L126)
StartGuard(s) == s = "stopped"

\* A cancellation check that only looks for 'stopped'.
StillStartingUnlessStopped(s) == s # "stopped"

\* if (this.status !== 'starting') return;  (L141, L194)
StillStarting(s) == s = "starting"

\* return (L142, L195): the startup is abandoned.
StartReturn(op, calls) ==
    /\ startPc' = "returned"
    /\ DropLocals
    /\ Did(op, calls)
    /\ UNCHANGED <<status, startExts, startIdx, startLog, replayed, cache, runs, lastSeenSub,
                   mqttFirst>>

\* L222-236: status = 'started', the replay of the cached states, and the
\* subscription to last-seen-changed.
StartFinish(op, calls, log) ==
    /\ status' = "started"
    /\ startPc' = "done"
    /\ startLog' = Append(log, Milestone("started"))
    /\ replayed' = IF ReplayOn THEN Range(ReplayOrder) ELSE {}
    /\ Replay
    /\ lastSeenSub' = (lastSeenSub \/ settings.last_seen)
    /\ DropLocals
    /\ Did(op, calls \cup (IF ReplayOn /\ ReplayOrder # <<>>
                           THEN {"publishEntityState"} ELSE {}))

\* callExtensions('start', exts) at index i (L386-395), and what follows the
\* loop in start() (L222-236) once the list is exhausted.
NextStartHook(op, calls, exts, i, log) ==
    /\ startExts' = exts
    /\ startIdx' = i
    /\ UNCHANGED mqttFirst
    /\ IF i <= Len(exts)
       THEN /\ startPc' = "extStart"
            /\ startLog' = Append(log, exts[i])
            /\ UNCHANGED <<status, replayed, cache, runs, lastSeenSub, locals>>
            /\ Did(op, calls \cup {"hook.start"})
       ELSE StartFinish(op, calls, log)

\* One pass of the broker loop up to its first await (L192-207).
MqttLoopHead(op, calls) ==
    IF ~StillStarting(status)
    THEN StartReturn(op, calls)
    ELSE IF mqttConnected
    THEN NextStartHook(op, calls, extensions, 1,
                       Append(startLog, Milestone("mqtt.connected")))
    ELSE IF ~mqttFirst
    THEN /\ startPc' = "mqttDisc"
         /\ UNCHANGED <<status, startExts, startIdx, startLog, replayed, cache, runs,
                        lastSeenSub, mqttFirst, locals>>
         /\ Did(op, calls \cup {"mqtt.disconnect"})
    ELSE /\ startPc' = "mqttConn"
         /\ mqttFirst' = FALSE
         /\ UNCHANGED <<status, startExts, startIdx, startLog, replayed, cache, runs,
                        lastSeenSub, locals>>
         /\ Did(op, calls \cup {"mqtt.connect"})

\* One pass of the adapter loop up to its await (L139-144).
ZigbeeLoopHead(op) ==
    /\ IF ~StillStarting(status)
       THEN StartReturn(op, {})
       ELSE /\ startPc' = "zbStart"
            /\ Did(op, {"zigbee.start"})
            /\ UNCHANGED <<status, startExts, startIdx, startLog, replayed, cache, runs,
                           lastSeenSub, mqttFirst, locals>>
    /\ UNCHANGED <<startFrame, settings, startResult, disabling, toggleLog, adapterSub,
                   mqttConnected>>

\* start() is called (L125-133).
Start ==
    /\ IF ~StartGuard(status)
       THEN /\ Did("start", {})
            /\ UNCHANGED <<status, startPc, startLog>>
       ELSE /\ status' = "starting"
            /\ startPc' = "version"
            /\ startLog' = Append(startLog, Milestone("state.start"))
            /\ Did("start", {"state.start"})
    /\ UNCHANGED <<startFrame, settings, startResult, disabling, toggleLog, adapterSub,
                   mqttConnected, startExts, startIdx, replayed, cache, runs, lastSeenSub,
                   mqttFirst, locals>>

\* A start() that goes to the broker before the adapter has been started.
VersionDoneBrokerFirst ==
    /\ startPc = "version"
    /\ MqttLoopHead("start.version", {})
    /\ UNCHANGED <<startFrame, settings, startResult, disabling, toggleLog, adapterSub,
                   mqttConnected>>

\* getZigbee2MQTTVersion() returns (L133), first pass of the adapter loop.
VersionDone ==
    /\ startPc = "version"
    /\ ZigbeeLoopHead("start.version")

\* The backoff timer of the adapter loop fires (L155).
ZigbeeBackoffDone ==
    /\ startPc = "zbBackoff"
    /\ ZigbeeLoopHead("start.zigbeeRetry")

\* An adapter loop that gives up at the first failure instead of retrying.
ZigbeeStartFailGivesUp ==
    /\ startPc = "zbStart"
    /\ StartReturn("start.zigbeeFail", {"logger.error"})
    /\ UNCHANGED <<startFrame, settings, startResult, disabling, toggleLog, adapterSub,
                   mqttConnected>>

\* zigbee.start() throws (L147-155).
ZigbeeStartFail ==
    /\ startPc = "zbStart"
    /\ startPc' = "zbBackoff"
    /\ loggedZigbeeStartError' = TRUE
    /\ zigbeeErrLogs' = IF loggedZigbeeStartError THEN zigbeeErrLogs
                        ELSE Min(zigbeeErrLogs + 1, 2)
    /\ zigbeeFails' = Min(zigbeeFails + 1, MaxFail)
    /\ Did("start.zigbeeFail", IF loggedZigbeeStartError THEN {} ELSE {"logger.error"})
    /\ UNCHANGED <<startFrame, settings, startResult, disabling, toggleLog, adapterSub,
                   mqttConnected, status, startExts, startIdx, startLog,
                   replayed, cache, runs, lastSeenSub, mqttFirst, loggedMqttStartError,
                   mqttFails, mqttErrLogs>>

\* zigbee.start() returns `result` (L144-146); then, without a further
\* await, the reset policy (L160-165), the device summary (L168-175) and the
\* call of permitJoin (L178-185).  enableDisableExtension is not awaited: it
\* runs up to the await of the stop hook and goes on by itself later.
ZigbeeStartOk(result) ==
    /\ startPc = "zbStart"
    /\ startResult' = result
    /\ adapterSub' = TRUE
    /\ startPc' = "permitJoin"
    /\ startLog' = startLog \o <<Milestone("zigbee.start"), Milestone("permitJoin")>>
    /\ LET found == FindByName(extensions, "BridgeLegacy")
           disable == result = "reset" /\ found # <<>>
       IN  /\ settings' = IF result = "reset"
                          THEN [settings EXCEPT !.legacy_api = FALSE]
                          ELSE settings
           /\ disabling' = IF disable THEN Append(disabling, found[1]) ELSE disabling
           /\ toggleLog' = IF result = "reset"
                           THEN Append(toggleLog, <<"disable", "BridgeLegacy", found # <<>>>>)
                           ELSE toggleLog
           /\ Did("start.zigbeeOk",
                  {"permitJoin"} \cup (IF result = "reset" THEN {"settings.set"} ELSE {})
                                 \cup (IF disable THEN {"hook.stop"} ELSE {}))
    /\ UNCHANGED <<startFrame, mqttConnected, status, startExts, startIdx,
                   replayed, cache, runs, lastSeenSub, mqttFirst, locals>>

\* permitJoin returns or throws (L185-188: a throw is logged and dropped),
\* first pass of the broker loop.
PermitJoinDone(ok) ==
    /\ startPc = "permitJoin"
    /\ MqttLoopHead("start.permitJoin", IF ok THEN {} ELSE {"logger.error"})
    /\ UNCHANGED <<startFrame, settings, startResult, disabling, toggleLog, adapterSub,
                   mqttConnected>>

\* The backoff timer of the broker loop fires (L215).
MqttBackoffDone ==
    /\ startPc = "mqttBackoff"
    /\ MqttLoopHead("start.mqttRetry", {})
    /\ UNCHANGED <<startFrame, settings, startResult, disabling, toggleLog, adapterSub,
                   mqttConnected>>

\* mqtt.disconnect() of L202 returns or throws (the throw is swallowed, L204);
\* connect is called next, without a status check (L207).
MqttDisconnectDone(ok) ==
    /\ startPc = "mqttDisc"
    /\ startPc' = "mqttConn"
    /\ mqttConnected' = IF ok THEN FALSE ELSE mqttConnected
    /\ Did("start.mqttDisconnect", {"mqtt.connect"})
    /\ UNCHANGED <<startFrame, settings, startResult, disabling, toggleLog, adapterSub,
                   status, startExts, startIdx, startLog, replayed, cache, runs,
                   lastSeenSub, mqttFirst, locals>>

\* A broker loop that tests the adapter loop's flag before it logs.
MqttConnectFailSharedFlag ==
    /\ startPc = "mqttConn"
    /\ startPc' = "mqttBackoff"
    /\ loggedMqttStartError' = TRUE
    /\ mqttErrLogs' = IF loggedZigbeeStartError THEN mqttErrLogs
                      ELSE Min(mqttErrLogs + 1, 2)
    /\ mqttFails' = Min(mqttFails + 1, MaxFail)
    /\ Did("start.mqttFail", IF loggedZigbeeStartError THEN {} ELSE {"logger.error"})
    /\ UNCHANGED <<startFrame, settings, startResult, disabling, toggleLog, adapterSub,
                   mqttConnected, status, startExts, startIdx, startLog,
                   replayed, cache, runs, lastSeenSub, mqttFirst, loggedZigbeeStartError,
                   zigbeeFails, zigbeeErrLogs>>

\* mqtt.connect() throws (L209-215).
MqttConnectFail ==
    /\ startPc = "mqttConn"
    /\ startPc' = "mqttBackoff"
    /\ loggedMqttStartError' = TRUE
    /\ mqttErrLogs' = IF loggedMqttStartError THEN mqttErrLogs
                      ELSE Min(mqttErrLogs + 1, 2)
    /\ mqttFails' = Min(mqttFails + 1, MaxFail)
    /\ Did("start.mqttFail", IF loggedMqttStartError THEN {} ELSE {"logger.error"})
    /\ UNCHANGED <<startFrame, settings, startResult, disabling, toggleLog, adapterSub,
                   mqttConnected, status, startExts, startIdx, startLog,
                   replayed, cache, runs, lastSeenSub, mqttFirst, loggedZigbeeStartError,
                   zigbeeFails, zigbeeErrLogs>>

\* mqtt.connect() returns (L207-208); callExtensions('start') begins (L220).
MqttConnectOk ==
    /\ startPc = "mqttConn"
    /\ mqttConnected' = TRUE
    /\ NextStartHook("start.mqttOk", {}, extensions, 1,
                     Append(startLog, Milestone("mqtt.connected")))
    /\ UNCHANGED <<startFrame, settings, startResult, disabling, toggleLog, adapterSub>>

\* A callExtensions without the try/catch: the throw of a start hook ends
\* start().
StartHookDoneUncaught(ok) ==
    /\ startPc = "extStart"
    /\ IF ok
       THEN NextStartHook("start.hook", {}, startExts, startIdx + 1, startLog)
       ELSE StartReturn("start.hook", {"logger.error"})
    /\ UNCHANGED <<startFrame, settings, startResult, disabling, toggleLog, adapterSub,
                   mqttConnected>>

\* The start hook in flight returns or throws (L388-393: a throw is logged
\* and the loop goes on).
StartHookDone(ok) ==
    /\ startPc = "extStart"
    /\ NextStartHook("start.hook", IF ok THEN {} ELSE {"logger.error"},
                     startExts, startIdx + 1, startLog)
    /\ UNCHANGED <<startFrame, settings, startResult, disabling, toggleLog, adapterSub,
                   mqttConnected>>

StartNext ==
    \/ Start
    \/ VersionDone
    \/ ZigbeeBackoffDone
    \/ ZigbeeStartFail
    \/ \E result \in {"normal", "reset"} : ZigbeeStartOk(result)
    \/ \E ok \in BOOLEAN : PermitJoinDone(ok)
    \/ MqttBackoffDone
    \/ \E ok \in BOOLEAN : MqttDisconnectDone(ok)
    \/ MqttConnectFail
    \/ MqttConnectOk
    \/ \E ok \in BOOLEAN : StartHookDone(ok)

\* ------------------------------------------------------- stop(): L260-284
\* A stop() without the guard of L262.
StopGuardMissing(s) == TRUE

\* if (this.status === 'stopping') return;  (L262)
StopGuard(s) == s # "stopping"

\* The lowest free slot for a new stop() coroutine, 0 when none is left.
FreeSlot ==
    IF \E s \in Slots : stops[s].pc = "free"
    THEN CHOOSE s \in Slots : stops[s].pc = "free" /\ \A t \in 1..(s-1) : stops[t].pc # "free"
    ELSE 0

\* What the exit callback, index.js exit (L27-31), and the caller of stop()
\* do once the exit callback is invoked: with the reason of a restart the
\* process lives on, the stop() restart() awaits returns and restart()
\* goes on to start(), which constructs and starts a new Controller
\* (index.js L21-23, L101-103); with any other reason the process exits.
ExitCalls(reason) ==
    {"exitCallback"} \cup (IF reason = indexJsRestart
                           THEN {"new Controller", "controller.start"}
                           ELSE {"process.exit"})

\* L268-273 and L280-282: removeListeners, State stop, and then either the
\* call of mqtt.disconnect or, State stop having thrown, exitCallback(1).
AfterStopHooks(s, rec, op, calls, stateOk) ==
    /\ adapterSub' = FALSE
    /\ lastSeenSub' = FALSE
    /\ IF stateOk
       THEN /\ stops' = [stops EXCEPT ![s] = [rec EXCEPT !.pc = "disc"]]
            /\ UNCHANGED <<exits, replaced>>
            /\ Did(op, calls \cup {"removeListeners", "state.stop", "mqtt.disconnect"})
       ELSE /\ stops' = [stops EXCEPT ![s] = [rec EXCEPT !.pc = "done"]]
            /\ exits' = Append(exits, <<1, rec.reason>>)
            /\ replaced' = (replaced \/ rec.reason = indexJsRestart)
            /\ Did(op, calls \cup {"removeListeners", "state.stop", "logger.error"}
                             \cup ExitCalls(rec.reason))

\* callExtensions('stop', this.extensions) at index i (L386-395): the loop
\* walks the live array, so the bound is its length now.
NextStopHook(s, rec, i, op, calls, stateOk) ==
    IF i <= Len(extensions)
    THEN /\ stops' = [stops EXCEPT ![s] = [rec EXCEPT
               !.pc = "extStop", !.idx = i, !.seen = Append(@, extensions[i])]]
         /\ UNCHANGED <<adapterSub, lastSeenSub, exits, replaced>>
         /\ Did(op, calls \cup {"hook.stop"})
    ELSE AfterStopHooks(s, rec, op, calls, stateOk)

\* Everything stop() never writes.
stopFrame == <<extensions, settings, startPc, startResult,
               loggedZigbeeStartError, loggedMqttStartError, startExts,
               startIdx, disabling, toggles, toggleLog, mqttFirst, zigbeeFails,
               mqttFails, zigbeeErrLogs, mqttErrLogs, startLog, replayed, pubVars,
               auxVars>>

\* stop(reason) past its guard, up to the await of the first stop hook
\* (L265-267).
StopAccepted(reason, stateOk, op, calls) ==
    /\ FreeSlot # 0
    /\ status' = "stopping"
    /\ stopAt' = IF stopAt # "none" THEN stopAt
                 ELSE IF startPc \in {"zbBackoff", "mqttBackoff"} THEN startPc
                 ELSE "other"
    /\ NextStopHook(FreeSlot, [FreeStop EXCEPT !.reason = reason], 1,
                    op, calls, stateOk)

\* stop(reason) is called (L260-267).  index.js calls stop on the Controller
\* it holds, whose start() it has called (index.js L101-108).
Stop(reason, stateOk) ==
    /\ startPc # "idle"
    /\ ~replaced
    /\ IF ~StopGuard(status)
       THEN /\ Did("stop", {})
            /\ UNCHANGED <<status, stops, adapterSub, lastSeenSub, exits,
                           stopAt, replaced>>
       ELSE StopAccepted(reason, stateOk, "stop", {})
    /\ UNCHANGED <<stopFrame, mqttConnected>>

\* The stop hook in flight returns or throws (L388-393).
StopHookDone(s, ok, stateOk) ==
    /\ stops[s].pc = "extStop"
    /\ NextStopHook(s, stops[s], stops[s].idx + 1,
                    "stop.hook", IF ok THEN {} ELSE {"logger.error"}, stateOk)
    /\ UNCHANGED <<stopFrame, status, mqttConnected, stopAt>>

\* mqtt.disconnect() returns or throws (L272-275: the throw is swallowed);
\* zigbee.stop() is called (L277).
StopDisconnectDone(s, ok) ==
    /\ stops[s].pc = "disc"
    /\ mqttConnected' = IF ok THEN FALSE ELSE mqttConnected
    /\ stops' = [stops EXCEPT ![s].pc = "zbStop"]
    /\ Did("stop.disconnect", {"zigbee.stop"})
    /\ UNCHANGED <<stopFrame, status, adapterSub, lastSeenSub, exits, stopAt,
                   replaced>>

\* A stop() without the outer catch: a throw of zigbee.stop() ends it.
StopZigbeeDoneUncaught(s, ok) ==
    /\ stops[s].pc = "zbStop"
    /\ stops' = [stops EXCEPT ![s].pc = "done"]
    /\ exits' = IF ok THEN Append(exits, <<0, stops[s].reason>>) ELSE exits
    /\ replaced' = (replaced \/ (ok /\ stops[s].reason = indexJsRestart))
    /\ Did("stop.zigbee", IF ok THEN {"logger.info"} \cup ExitCalls(stops[s].reason)
                          ELSE {})
    /\ UNCHANGED <<stopFrame, status, mqttConnected, adapterSub, lastSeenSub,
                   stopAt>>

\* A stop() whose catch block reports success.
StopZigbeeDoneAlwaysZero(s, ok) ==
    /\ stops[s].pc = "zbStop"
    /\ stops' = [stops EXCEPT ![s].pc = "done"]
    /\ exits' = Append(exits, <<0, stops[s].reason>>)
    /\ replaced' = (replaced \/ stops[s].reason = indexJsRestart)
    /\ Did("stop.zigbee", (IF ok THEN {"logger.info"} ELSE {"logger.error"})
                            \cup ExitCalls(stops[s].reason))
    /\ UNCHANGED <<stopFrame, status, mqttConnected, adapterSub, lastSeenSub,
                   stopAt>>

\* zigbee.stop() returns (L278-279) or throws (L280-282).
StopZigbeeDone(s, ok) ==
    /\ stops[s].pc = "zbStop"
    /\ stops' = [stops EXCEPT ![s].pc = "done"]
    /\ exits' = Append(exits, <<IF ok THEN 0 ELSE 1, stops[s].reason>>)
    /\ replaced' = (replaced \/ stops[s].reason = indexJsRestart)
    /\ Did("stop.zigbee", (IF ok THEN {"logger.info"} ELSE {"logger.error"})
                            \cup ExitCalls(stops[s].reason))
    /\ UNCHANGED <<stopFrame, status, mqttConnected, adapterSub, lastSeenSub,
                   stopAt>>

\* A quit: handleQuit calls stop() with no reason (index.js L106-114).
StopNext ==
    \/ \E stateOk \in BOOLEAN : Stop("null", stateOk)
    \/ \E s \in Slots, ok \in BOOLEAN, stateOk \in BOOLEAN : StopHookDone(s, ok, stateOk)
    \/ \E s \in Slots, ok \in BOOLEAN : StopDisconnectDone(s, ok)
    \/ \E s \in Slots, ok \in BOOLEAN : StopZigbeeDone(s, ok)

\* --------------------------------- enableDisableExtension(): L239-253
\* Everything enableDisableExtension never writes.
toggleFrame == <<status, settings, startPc, startResult,
                 loggedZigbeeStartError, loggedMqttStartError, startExts,
                 startIdx, stops, mqttConnected, mqttFirst, adapterSub,
                 lastSeenSub, zigbeeFails, mqttFails, zigbeeErrLogs,
                 mqttErrLogs, startLog, replayed, exits, stopAt, replaced,
                 pubVars, auxVars>>

\* An enable that appends whatever name it is given, with no assertion.
EnableDisableExtensionNoAssert(enable, name) ==
    /\ startPc # "idle"
    /\ toggles < MaxToggle
    /\ toggles' = toggles + 1
    /\ IF ~enable
       THEN LET found == FindByName(extensions, name)
            IN  /\ disabling' = IF found # <<>> THEN Append(disabling, found[1])
                                ELSE disabling
                /\ toggleLog' = Append(toggleLog, <<"disable", name, found # <<>>>>)
                /\ UNCHANGED extensions
                /\ Did("disable", IF found # <<>> THEN {"hook.stop"} ELSE {})
       ELSE /\ extensions' = Append(extensions, <<name, toggles + 1>>)
            /\ toggleLog' = Append(toggleLog, <<"enable", name, name \in AllExtensions>>)
            /\ UNCHANGED disabling
            /\ Did("enable", {"hook.start"})
    /\ UNCHANGED toggleFrame

\* An extension calls enableDisableExtension(enable, name), up to the await
\* of the hook (L240-243 and L247-251).  After the await of a start hook
\* nothing is left to do, so an enable is over with this step.
EnableDisableExtension(enable, name) ==
    /\ startPc # "idle"
    /\ toggles < MaxToggle
    /\ toggles' = toggles + 1
    /\ IF ~enable
       THEN LET found == FindByName(extensions, name)
            IN  /\ disabling' = IF found # <<>> THEN Append(disabling, found[1])
                                ELSE disabling
                /\ toggleLog' = Append(toggleLog, <<"disable", name, found # <<>>>>)
                /\ UNCHANGED extensions
                /\ Did("disable", IF found # <<>> THEN {"hook.stop"} ELSE {})
       ELSE IF name \in AllExtensions
       THEN /\ extensions' = Append(extensions, <<name, toggles + 1>>)
            /\ toggleLog' = Append(toggleLog, <<"enable", name, TRUE>>)
            /\ UNCHANGED disabling
            /\ Did("enable", {"hook.start"})
       ELSE /\ toggleLog' = Append(toggleLog, <<"enable", name, FALSE>>)
            /\ UNCHANGED <<extensions, disabling>>
            /\ Did("enable", {"assert"})
    /\ UNCHANGED toggleFrame

\* An extension calls addExtension with an instance it has constructed
\* (L255-258): the instance is appended and its start hook invoked.
AddExtension(name) ==
    /\ startPc # "idle"
    /\ toggles < MaxToggle
    /\ toggles' = toggles + 1
    /\ extensions' = Append(extensions, <<name, toggles + 1>>)
    /\ toggleLog' = Append(toggleLog, <<"add", name, TRUE>>)
    /\ Did("add", {"hook.start"})
    /\ UNCHANGED <<toggleFrame, disabling>>

\* A disable that leaves the list as it is.
DisableHookDoneKeeps(k, ok) ==
    /\ k \in 1..Len(disabling)
    /\ disabling' = RemoveAt(disabling, k)
    /\ Did("disable.done", IF ok THEN {} ELSE {"logger.error"})
    /\ UNCHANGED <<toggleFrame, toggles, toggleLog, extensions>>

\* The stop hook awaited at L243 returns or throws (the throw is caught in
\* callExtensions); the instance is spliced out of the list (L244).
DisableHookDone(k, ok) ==
    /\ k \in 1..Len(disabling)
    /\ extensions' = Splice1(extensions, IndexOf(extensions, disabling[k]))
    /\ disabling' = RemoveAt(disabling, k)
    /\ Did("disable.done", IF ok THEN {} ELSE {"logger.error"})
    /\ UNCHANGED <<toggleFrame, toggles, toggleLog>>

DisableNext == \E k \in 1..(MaxToggle + 1), ok \in BOOLEAN : DisableHookDone(k, ok)

ToggleNext ==
    \/ \E enable \in BOOLEAN, name \in ToggleNames : EnableDisableExtension(enable, name)
    \/ \E name \in AddNames : AddExtension(name)

\* ------------------------------------------------------- environment
envFrame == <<status, extensions, settings, startPc, startResult,
              loggedZigbeeStartError, loggedMqttStartError, startExts,
              startIdx, stops, disabling, toggles, toggleLog, adapterSub,
              lastSeenSub,
              zigbeeFails, mqttFails, zigbeeErrLogs, mqttErrLogs, startLog,
              replayed, exits, stopAt, replaced, pubSettings, auxVars>>

\* The adapter reports a disconnect; the handler registered at L145 calls
\* the restart callback (L286-289), index.js restart (L19-25), which calls
\* stop(indexJsRestart) on the Controller index.js holds and, when that has
\* returned, start().  A stop() refused at L262 returns at once, and so
\* restart() goes straight on to start().
OnZigbeeAdapterDisconnected(stateOk) ==
    /\ adapterSub
    /\ IF replaced
       THEN /\ Did("adapterDisconnected", {"restartCallback"})
            /\ UNCHANGED <<status, stops, adapterSub, lastSeenSub, exits,
                           stopAt, replaced>>
       ELSE IF ~StopGuard(status)
       THEN /\ replaced' = TRUE
            /\ Did("adapterDisconnected",
                   {"restartCallback", "new Controller", "controller.start"})
            /\ UNCHANGED <<status, stops, adapterSub, lastSeenSub, exits,
                           stopAt>>
       ELSE StopAccepted(indexJsRestart, stateOk, "adapterDisconnected",
                         {"restartCallback"})
    /\ UNCHANGED <<stopFrame, mqttConnected>>

\* A last-seen-changed event; the handler registered at L234 republishes.
\* The call is not awaited; it takes the first idle slot.
OnLastSeenChanged ==
    /\ lastSeenSub
    /\ IF tracked /\ IdleSlots # <<>>
       THEN \E d \in Devices \cap Entities, acts \in [1..Len(extensions) -> HookActs] :
                LET seg == FirstSegment(d, <<>>, "lastSeenChanged", acts)
                IN  /\ cache' = [cache EXCEPT ![d] = seg.newState]
                    /\ runs' = [runs EXCEPT ![IdleSlots[1]] = seg.rec]
       ELSE UNCHANGED <<cache, runs>>
    /\ Did("lastSeenChanged", {"publishEntityState"})
    /\ UNCHANGED <<envFrame, mqttConnected, mqttFirst>>

\* index.js _connectMqttBroker (L160-168), called by the management API on
\* a Controller that exists: connects the broker when it is not connected;
\* a failure is logged and dropped.  Taken as one step, at the return of
\* connect.
ConnectMqttBroker(ok) ==
    /\ startPc # "idle"
    /\ ~mqttConnected
    /\ mqttFirst' = FALSE
    /\ mqttConnected' = ok
    /\ Did("api.connect", {"mqtt.connect"} \cup (IF ok THEN {} ELSE {"logger.error"}))
    /\ UNCHANGED <<envFrame, cache, runs>>

EnvNext ==
    \/ \E stateOk \in BOOLEAN : OnZigbeeAdapterDisconnected(stateOk)
    \/ OnLastSeenChanged
    \/ \E ok \in BOOLEAN : ConnectMqttBroker(ok)

\* ------------------------------------------------- publication pipeline
\* this.eventBus.emitPublishEntityState (L356): the run is over.
EmitAndReturn(r, rec, op, calls) ==
    /\ runs' = [runs EXCEPT ![r] = Emitted(rec)]
    /\ Did(op, calls \cup {"emitPublishEntityState"})

\* The next per-attribute publish of the run, or the end of the iteration.
NextAttribute(r, rec, op, calls) ==
    IF rec.idx < Len(rec.leaves)
    THEN /\ runs' = [runs EXCEPT ![r] =
                        [rec EXCEPT !.pc = "attr", !.idx = rec.idx + 1,
                                    !.out = Append(rec.out,
                                        AttrMsg(rec.entity, rec.leaves[rec.idx + 1]))]]
         /\ Did(op, calls \cup {"mqtt.publish"})
    ELSE EmitAndReturn(r, rec, op, calls)

\* A call of publishEntityState, taken to its first await.
PublishEntityState(r, e, payload, reason, acts) ==
    /\ runs[r].pc = "idle"
    /\ Len(acts) = Len(extensions)
    /\ LET seg == FirstSegment(e, payload, reason, acts)
       IN  /\ cache' = [cache EXCEPT ![e] = seg.newState]
           /\ runs' = [runs EXCEPT ![r] = seg.rec]
           /\ Did("publishEntityState", seg.calls)
    /\ UNCHANGED <<ctlVars, pubSettings>>

\* A run that is over once its JSON document is published.
JsonPublishedStops(r) ==
    /\ runs[r].pc = "json"
    /\ EmitAndReturn(r, runs[r], "publish.json", {})
    /\ UNCHANGED <<ctlVars, pubSettings, cache>>

\* The publish of the JSON document returns (L347).
JsonPublished(r) ==
    /\ runs[r].pc = "json"
    /\ IF pubSettings.output = "attribute_and_json"
       THEN NextAttribute(r, runs[r], "publish.json", {})
       ELSE EmitAndReturn(r, runs[r], "publish.json", {})
    /\ UNCHANGED <<ctlVars, pubSettings, cache>>

\* A per-attribute publish returns (L381).
AttributePublished(r) ==
    /\ runs[r].pc = "attr"
    /\ NextAttribute(r, runs[r], "publish.attribute", {})
    /\ UNCHANGED <<ctlVars, pubSettings, cache>>

\* A call takes the first slot no call has taken yet.
FreeRun(r) ==
    \E i \in 1..Len(RunOrder) :
        /\ RunOrder[i] = r
        /\ runs[r].pc = "idle"
        /\ \A j \in 1..(i - 1) : runs[RunOrder[j]].pc # "idle"

PublishNext ==
    \E r \in RunIds :
        \/ \E e \in Entities, payload \in Payloads, reason \in PubReasons,
              acts \in [1..Len(extensions) -> HookActs] :
               FreeRun(r) /\ PublishEntityState(r, e, payload, reason, acts)
        \/ JsonPublished(r)
        \/ AttributePublished(r)

\* The pipeline on a constructed Controller with the two fixed extensions,
\* under every setting of its options.
PublishInit ==
    \E cfg \in {c \in Settings : ~c.legacy_api /\ ~c.homeassistant /\ c.cache_send},
       pcfg \in PubSettings :
        tracked = FALSE /\ Constructed(cfg, pcfg)

PublishSpec == PublishInit /\ [][PublishNext]_vars

\* The payloads the attribute iteration is followed on: one or two of the
\* keys 'color' and 'state', over every kind of value.
FlattenValues ==
    {Str("ON"), Num(10), Null, Undefined, Arr(<<Num(1), Str("x")>>),
     Obj(<<<<"r", Num(10)>>, <<"g", Num(20)>>, <<"b", Num(30)>>>>),
     Obj(<<<<"hue", Num(5)>>, <<"xy", Obj(<<<<"x", Num(1)>>>>)>>>>)}

FlattenPayloads ==
    {<<<<k, v>>>> : k \in {"color", "state"}, v \in FlattenValues}
    \cup {<<<<"color", v>>, <<"state", w>>>> : v, w \in FlattenValues}

\* Output mode 'attribute' without the cached bag, for a group, with
\* extensions whose adjust hooks leave the message alone.
FlattenInit ==
    /\ tracked = FALSE
    /\ Constructed([legacy_api |-> FALSE, homeassistant |-> FALSE,
                    last_seen |-> FALSE, cache_send |-> FALSE],
                   [cache_state |-> FALSE, output |-> "attribute",
                    include_device_information |-> FALSE])

FlattenNext ==
    \/ \E payload \in FlattenPayloads :
           /\ FreeRun(RunOrder[1])
           /\ PublishEntityState(RunOrder[1], "g1", payload, "undefined",
                                 [i \in 1..Len(extensions) |-> "none"])
    \/ AttributePublished(RunOrder[1])

FlattenSpec == FlattenInit /\ [][FlattenNext]_vars

\* The payloads the cache merge is followed on: they share keys, with
\* different values.
MergePayloads ==
    {<<>>,
     <<<<"state", Str("a")>>>>,
     <<<<"battery", Str("b")>>>>,
     <<<<"state", Str("b")>>, <<"battery", Str("a")>>>>}

\* Output mode 'json', the cache_state option on or off, extensions whose
\* adjust hooks leave the message alone.
MergeInit ==
    \E cs \in BOOLEAN :
        /\ tracked = FALSE
        /\ Constructed([legacy_api |-> FALSE, homeassistant |-> FALSE,
                        last_seen |-> FALSE, cache_send |-> FALSE],
                       [cache_state |-> cs, output |-> "json",
                        include_device_information |-> FALSE])

MergeNext ==
    \E r \in RunIds :
        \/ \E e \in Entities, payload \in MergePayloads :
               /\ FreeRun(r)
               /\ PublishEntityState(r, e, payload, "undefined",
                                     [i \in 1..Len(extensions) |-> "none"])
        \/ JsonPublished(r)

MergeSpec == MergeInit /\ [][MergeNext]_vars

\* The startup of a Controller with the two fixed extensions, followed
\* through the pipeline runs its replay and its last-seen handler start.
ReplayInit ==
    \E cfg \in {c \in Settings : ~c.legacy_api /\ ~c.homeassistant},
       pcfg \in PubSettings :
        tracked = TRUE /\ Constructed(cfg, pcfg)

ReplayNext ==
    \/ StartNext
    \/ OnLastSeenChanged
    \/ \E r \in RunIds : JsonPublished(r) \/ AttributePublished(r)

ReplaySpec == ReplayInit /\ [][ReplayNext]_vars

\* ------------------------------------------------------------ EventBus
\* The EventBus the constructor creates (L86-89) and hands to Zigbee, MQTT,
\* State and the extensions (L90-98).  Its implementation (./eventBus, L35)
\* is not among the sources: the steps below follow its contract, with the
\* error callback the constructor passes it.
\*
\* An error callback that throws the error on.
ErrorCallbackRethrows == "rethrown"

\* The error callback the constructor passes (L86-89): it logs the error
\* and returns.
ErrorCallback == "logged"

\* The handlers subscribed to kind, in registration order.
HandlersOf(subs, kind) == SelectSeq(subs, LAMBDA h : h.kind = kind)

\* The handlers an emit invokes, from the i-th on: each in turn; a throw
\* is caught and handed to the error callback, and the emit goes on when
\* that returns.
RECURSIVE Deliver(_, _)
Deliver(hs, i) ==
    IF i > Len(hs) THEN <<>>
    ELSE IF hs[i].throws /\ ErrorCallback # "logged" THEN <<hs[i]>>
    ELSE <<hs[i]>> \o Deliver(hs, i + 1)

\* Everything the EventBus steps leave alone.
busFrame == <<coreVars, pubVars, tracked, idxVars, frontend>>

\* eventBus.on<Kind>(key, handler), as at L145, L234 and L428: the handler
\* is one that returns or one that throws.
Subscribe(kind, key, throws) ==
    /\ bus.serial < MaxSubs
    /\ bus' = [bus EXCEPT
                 !.serial = @ + 1,
                 !.subs = Append(@, [id |-> bus.serial + 1, kind |-> kind,
                                     key |-> key, throws |-> throws])]
    /\ Did("subscribe", {})
    /\ UNCHANGED busFrame

\* eventBus.emit<Kind>(data), as at L356.
Emit(kind) ==
    /\ LET inv == Deliver(HandlersOf(bus.subs, kind), 1)
       IN /\ bus' = [bus EXCEPT
                       !.kind = kind,
                       !.invoked = inv,
                       !.logged = Cardinality({i \in 1..Len(inv) : inv[i].throws})]
          /\ Did("emit", IF \E i \in 1..Len(inv) : inv[i].throws
                         THEN {"logger.error", "logger.debug"} ELSE {})
    /\ UNCHANGED busFrame

\* eventBus.removeListeners(key), as stop() does with the Controller
\* itself for key (L268).
RemoveListeners(key) ==
    /\ bus' = [bus EXCEPT
                 !.subs = SelectSeq(@, LAMBDA h : h.key # key),
                 !.removed = @ \cup {h \in Range(bus.subs) : h.key = key}]
    /\ Did("removeListeners", {})
    /\ UNCHANGED busFrame

BusInit ==
    /\ tracked = FALSE
    /\ Constructed([legacy_api |-> FALSE, homeassistant |-> FALSE,
                    last_seen |-> FALSE, cache_send |-> FALSE],
                   DefaultPubSettings)

BusNext ==
    \/ \E kind \in EventKinds, key \in SubscriberKeys, throws \in BOOLEAN :
          Subscribe(kind, key, throws)
    \/ \E kind \in EventKinds : Emit(kind)
    \/ \E key \in SubscriberKeys : RemoveListeners(key)

\* One EventBus under subscriptions, emits and removals in any order.
BusSpec == BusInit /\ [][BusNext]_vars

\* ------------------------------------- index.js: the device handlers
\* Everything no step of index.js writes.
idxFrame == <<coreVars, pubVars, tracked, bus, frontend>>

\* What the device handlers leave alone of index.js.
handlerFrame == <<restarting, stopping, controller, instances, restarts, exited>>

\* app.use (index.js L132-140): the request is refused with 503.
Guard503 == restarting \/ stopping

\* A handler that takes every id for a Device.
ResolvesAlways(id) == TRUE

\* controller?.zigbee.resolveEntity(id) gives a Device (index.js L265-266,
\* L323): the id of a joined device; a group or an unknown id does not.
ResolvesToDevice(id) == controller # 0 /\ id \in store.zigbee

\* The slot of the next request, 0 when none is left.
FreeRequestSlot ==
    IF \E q \in RequestIds : requests[q].pc = "free"
    THEN CHOOSE q \in RequestIds :
             requests[q].pc = "free" /\ \A t \in 1..(q-1) : requests[t].pc # "free"
    ELSE 0

\* The response: res.json({error: 'OK'}) is 200, res.status(404), and
\* next(e), which Express answers with 500.
Respond(q, rec, code, calls) ==
    requests' = [requests EXCEPT ![q] =
                    [rec EXCEPT !.pc = "done", !.code = code, !.log = @ \o calls]]

\* settings.removeDevice, controller.state.remove and emitDeviceRemoved
\* after the device has left the network (index.js L270-274, L328-332).
\* settings and State are not among the sources: removing is taking the
\* id out of the configured devices and out of the cached entries.
CleanedUp(id) ==
    [store EXCEPT !.zigbee = @ \ {id}, !.settings = @ \ {id},
                  !.state = @ \ {id}, !.events = Append(@, id)]

CleanupCalls == <<"settings.removeDevice", "state.remove", "emitDeviceRemoved">>

\* controller.extensions[0].deviceRemove has returned: the removal
\* extension (not among the sources) has removed the device itself.
DeviceRemoved(id) ==
    [store EXCEPT !.zigbee = @ \ {id}, !.settings = @ \ {id}, !.state = @ \ {id}]

\* The outcomes of an awaited removal: it returns, it throws, or it throws
\* an error whose message ends in 'does not exist'.
Outcomes == {"ok", "throws", "throwsNotExist"}

\* catch (e) of deleteDevice (index.js L276-285).
DeleteCatch(outcome) == IF outcome = "throwsNotExist" THEN 404 ELSE 500

\* deleteDevice (index.js L260-267) up to its first await or its response.
DeleteDevice(id, connected) ==
    /\ ~exited
    /\ FreeRequestSlot # 0
    /\ LET q == FreeRequestSlot
           rec == [FreeRequest EXCEPT !.route = "deleteDevice", !.id = id,
                                      !.connected = connected]
       IN IF Guard503
          THEN /\ Respond(q, rec, 503, <<>>)
               /\ Did("deleteDevice", {"503"})
          ELSE IF controller # 0 /\ connected
          THEN /\ requests' = [requests EXCEPT ![q] =
                      [rec EXCEPT !.pc = "deviceRemove", !.log = <<"deviceRemove">>]]
               /\ Did("deleteDevice", {"deviceRemove"})
          ELSE IF ~ResolvesToDevice(id)
          THEN /\ Respond(q, rec, 404, <<>>)
               /\ Did("deleteDevice", {"404"})
          ELSE /\ requests' = [requests EXCEPT ![q] =
                      [rec EXCEPT !.pc = "removeFromNetwork",
                                  !.log = <<"removeFromNetwork">>]]
               /\ Did("deleteDevice", {"removeFromNetwork"})
    /\ UNCHANGED <<idxFrame, handlerFrame, store>>

\* device.zh.removeFromNetwork() of deleteDevice returns or throws
\* (index.js L269-289).
DeleteRemoveDone(q, outcome) ==
    /\ requests[q].route = "deleteDevice"
    /\ requests[q].pc = "removeFromNetwork"
    /\ IF outcome = "ok"
       THEN /\ store' = CleanedUp(requests[q].id)
            /\ Respond(q, requests[q], 200, CleanupCalls)
       ELSE /\ UNCHANGED store
            /\ Respond(q, requests[q], DeleteCatch(outcome), <<>>)
    /\ Did("deleteDevice.removed", {})
    /\ UNCHANGED <<idxFrame, handlerFrame>>

\* deviceRemove of deleteDevice returns or throws (index.js L263, L276-289).
DeleteExtensionDone(q, outcome) ==
    /\ requests[q].route = "deleteDevice"
    /\ requests[q].pc = "deviceRemove"
    /\ IF outcome = "ok"
       THEN /\ store' = DeviceRemoved(requests[q].id)
            /\ Respond(q, requests[q], 200, <<>>)
       ELSE /\ UNCHANGED store
            /\ Respond(q, requests[q], DeleteCatch(outcome), <<>>)
    /\ Did("deleteDevice.extension", {})
    /\ UNCHANGED <<idxFrame, handlerFrame>>

\* addBlockList (index.js L318-326, L335, L341-343) up to its first await
\* or its response: settings.blockDevice comes first.
AddBlockList(id, connected) ==
    /\ ~exited
    /\ FreeRequestSlot # 0
    /\ LET q == FreeRequestSlot
           rec == [FreeRequest EXCEPT !.route = "addBlockList", !.id = id,
                                      !.connected = connected]
       IN IF Guard503
          THEN /\ Respond(q, rec, 503, <<>>)
               /\ UNCHANGED store
               /\ Did("addBlockList", {"503"})
          ELSE /\ store' = [store EXCEPT !.blocklist = @ \cup {id}]
               /\ IF ~ResolvesToDevice(id)
                  THEN /\ Respond(q, rec, 200, <<"settings.blockDevice">>)
                       /\ Did("addBlockList", {"settings.blockDevice"})
                  ELSE IF connected
                  THEN /\ requests' = [requests EXCEPT ![q] =
                              [rec EXCEPT !.pc = "deviceRemove",
                                  !.log = <<"settings.blockDevice", "deviceRemove">>]]
                       /\ Did("addBlockList", {"settings.blockDevice", "deviceRemove"})
                  ELSE /\ requests' = [requests EXCEPT ![q] =
                              [rec EXCEPT !.pc = "removeFromNetwork",
                                  !.log = <<"settings.blockDevice", "removeFromNetwork">>]]
                       /\ Did("addBlockList",
                              {"settings.blockDevice", "removeFromNetwork"})
    /\ UNCHANGED <<idxFrame, handlerFrame>>

\* The awaited removal of addBlockList returns (index.js L327-333, L341)
\* or throws (L336-338: return next(e)).
BlockRemoveDone(q, ok) ==
    /\ requests[q].route = "addBlockList"
    /\ requests[q].pc \in {"removeFromNetwork", "deviceRemove"}
    /\ IF ~ok
       THEN /\ UNCHANGED store
            /\ Respond(q, requests[q], 500, <<"next(e)">>)
       ELSE IF requests[q].pc = "deviceRemove"
       THEN /\ store' = DeviceRemoved(requests[q].id)
            /\ Respond(q, requests[q], 200, <<>>)
       ELSE /\ store' = CleanedUp(requests[q].id)
            /\ Respond(q, requests[q], 200, CleanupCalls)
    /\ Did("addBlockList.removed", {})
    /\ UNCHANGED <<idxFrame, handlerFrame>>

DeviceApiInit ==
    /\ tracked = FALSE
    /\ Constructed([legacy_api |-> FALSE, homeassistant |-> FALSE,
                    last_seen |-> FALSE, cache_send |-> FALSE],
                   DefaultPubSettings)

DeviceApiNext ==
    \/ \E id \in RequestIdents, connected \in BOOLEAN : DeleteDevice(id, connected)
    \/ \E q \in RequestIds, outcome \in Outcomes : DeleteRemoveDone(q, outcome)
    \/ \E q \in RequestIds, outcome \in Outcomes : DeleteExtensionDone(q, outcome)
    \/ \E id \in RequestIdents, connected \in BOOLEAN : AddBlockList(id, connected)
    \/ \E q \in RequestIds, ok \in BOOLEAN : BlockRemoveDone(q, ok)

\* The delete and block-list requests of the management API, up to
\* MaxRequests of them, overlapping or not.
DeviceApiSpec == DeviceApiInit /\ [][DeviceApiNext]_vars

\* --------------------------------- index.js: restart, quit, the guard
\* The slot of the next restart() call, 0 when none is left.
FreeRestartSlot ==
    IF \E r \in RestartIds : restarts[r].pc = "free"
    THEN CHOOSE r \in RestartIds :
             restarts[r].pc = "free" /\ \A t \in 1..(r-1) : restarts[t].pc # "free"
    ELSE 0

\* The number of the next Controller to construct.
NextController == CHOOSE n \in ControllerIds : instances[n].status = "none"
                                               /\ \A t \in 1..(n-1) : instances[t].status # "none"

\* controller?.stop(reason) is called (index.js L106-108; the guard and
\* the status write of Controller.stop, L262-265): the instances after
\* the call.
StopCalled(reason) ==
    IF controller # 0 /\ StopGuard(instances[controller].status)
    THEN [instances EXCEPT ![controller] = [@ EXCEPT !.status = "stopping",
                                                      !.reason = reason]]
    ELSE instances

\* The Controller whose shutdown the caller of stop(reason) waits for, 0
\* when stop() returns at once.
StopAwaited == IF controller # 0 /\ StopGuard(instances[controller].status)
               THEN controller ELSE 0

\* restart() is called (index.js L19-21), by a Controller's restart
\* callback (L288): up to the await of stop(indexJsRestart).
Restart ==
    /\ ~exited
    /\ FreeRestartSlot # 0
    /\ restarting' = TRUE
    /\ instances' = StopCalled(indexJsRestart)
    /\ restarts' = [restarts EXCEPT ![FreeRestartSlot] =
                        [pc |-> "stop", on |-> StopAwaited]]
    /\ Did("restart", {"stop"})
    /\ UNCHANGED <<idxFrame, stopping, controller, exited, requests, store>>

\* A Controller's stop() reaches its exit callback (L279, L282), index.js
\* exit (L27-31): the process exits unless the reason is that of a restart.
ControllerStopped(n) ==
    /\ ~exited
    /\ instances[n].status = "stopping"
    /\ ~instances[n].exit
    /\ instances' = [instances EXCEPT ![n].exit = TRUE]
    /\ exited' = (instances[n].reason # indexJsRestart)
    /\ Did("exit", IF instances[n].reason # indexJsRestart THEN {"process.exit"} ELSE {})
    /\ UNCHANGED <<idxFrame, restarting, stopping, controller, restarts,
                   requests, store>>

\* The stop() restart() awaits has returned: updateConfig() and start(),
\* which constructs and starts a new Controller (index.js L21-23, L101-103).
RestartStopped(r) ==
    /\ ~exited
    /\ restarts[r].pc = "stop"
    /\ IF restarts[r].on = 0 THEN TRUE ELSE instances[restarts[r].on].exit
    /\ controller' = NextController
    /\ instances' = [instances EXCEPT ![NextController].status = "starting"]
    /\ restarts' = [restarts EXCEPT ![r].pc = "start"]
    /\ Did("restart.stopped", {"updateConfig", "new Controller", "controller.start"})
    /\ UNCHANGED <<idxFrame, restarting, stopping, exited, requests, store>>

\* start() has returned to restart(): restarting = false (index.js L23-24).
RestartDone(r) ==
    /\ ~exited
    /\ restarts[r].pc = "start"
    /\ restarting' = FALSE
    /\ restarts' = [restarts EXCEPT ![r].pc = "done"]
    /\ Did("restart.done", {})
    /\ UNCHANGED <<idxFrame, stopping, controller, instances, exited, requests,
                   store>>

\* handleQuit (index.js L110-115), on SIGINT or SIGTERM.
HandleQuit ==
    /\ ~exited
    /\ IF ~stopping /\ controller # 0
       THEN /\ stopping' = TRUE
            /\ instances' = StopCalled("null")
            /\ Did("handleQuit", {"stop"})
       ELSE /\ UNCHANGED <<stopping, instances>>
            /\ Did("handleQuit", {})
    /\ UNCHANGED <<idxFrame, restarting, controller, restarts, exited, requests,
                   store>>

\* A management request, here GET /api/z2m/zigbee/devices: the guard
\* (index.js L132-140), then getDevices (L248-258), which reads the
\* Controller index.js holds.
GetDevices ==
    /\ ~exited
    /\ Did("getDevices", IF Guard503 THEN {"503"} ELSE {"handler"})
    /\ UNCHANGED <<idxFrame, idxVars>>

RestartInit ==
    /\ tracked = FALSE
    /\ Constructed([legacy_api |-> FALSE, homeassistant |-> FALSE,
                    last_seen |-> FALSE, cache_send |-> FALSE],
                   DefaultPubSettings)

RestartNext ==
    \/ Restart
    \/ \E n \in ControllerIds : ControllerStopped(n)
    \/ \E r \in RestartIds : RestartStopped(r)
    \/ \E r \in RestartIds : RestartDone(r)
    \/ HandleQuit
    \/ GetDevices

\* index.js under restart requests, quits and management requests.
RestartSpec == RestartInit /\ [][RestartNext]_vars

\* ------------------------------------------------------------ Frontend
\* String.prototype.startsWith
StartsWith(t, prefix) ==
    Len(prefix) <= Len(t) /\ SubSeq(t, 1, Len(prefix)) = prefix

\* String.prototype.substring(n)
Substring(t, n) == SubSeq(t, n + 1, Len(t))

\* A test for the characters of the base topic alone.
TopicStartsWithBase(topic) == StartsWith(topic, MqttBaseTopic)

\* data.topic.startsWith(`${this.mqttBaseTopic}/`) (L482)
TopicUnderBase(topic) == StartsWith(topic, MqttBaseTopic \o <<"/">>)

\* utils.parseJSON(value, fallback) (L485; utils is not among the sources):
\* the value JSON.parse gives, the fallback when the text is no JSON.
ParseJSON(value, fallback) == IF value = "10" THEN Num(10) ELSE Str(fallback)

\* The clients a message is sent to (L491-496), in the order of wss.clients.
OpenClients == {c \in WsClients : frontend.clients[c] = "open"}

RECURSIVE SendTo(_, _)
SendTo(cs, msg) ==
    IF cs = {} THEN <<>>
    ELSE LET c == CHOOSE x \in cs : TRUE
         IN <<<<c, msg[1], msg[2]>>>> \o SendTo(cs \ {c}, msg)

\* Everything the Frontend steps leave alone.
frontendFrame == <<coreVars, pubVars, tracked, bus, idxVars>>

\* Frontend.start (L431-435): the WebSocket server is created.
FrontendStart ==
    /\ ~frontend.wss
    /\ frontend' = [frontend EXCEPT !.wss = TRUE, !.sent = <<>>]
    /\ Did("frontend.start", {"logger.info"})
    /\ UNCHANGED frontendFrame

\* The payload the new client is sent for device d (L462-476).
DevicePayload(d) ==
    LET p0 == IF d \in CachedDevices THEN cache[d] ELSE <<>>
        p1 == IF settings.last_seen THEN ObjSet(p0, "last_seen", Str("date")) ELSE p0
    IN IF Linkquality(d) # "undefined" THEN ObjSet(p1, "linkquality", Linkquality(d))
       ELSE p1

\* onWebSocketConnection (L448-479): the new client is sent every retained
\* message, in the order of the Map, and the state of every device.
OnWebSocketConnection(c) ==
    /\ frontend.wss
    /\ frontend.clients[c] = "none"
    /\ frontend' = [frontend EXCEPT
          !.clients[c] = "open",
          !.sent = [i \in 1..Len(frontend.retainedMessages) |->
                        <<c, frontend.retainedMessages[i][1],
                             frontend.retainedMessages[i][2]>>]
                   \o [i \in 1..Len(DeviceOrder) |->
                        <<c, <<DeviceOrder[i]>>, Obj(DevicePayload(DeviceOrder[i]))>>]]
    /\ Did("frontend.connection", {"ws.send"})
    /\ UNCHANGED frontendFrame

\* A client starts closing: it stays in wss.clients with a readyState
\* other than OPEN (L494).
ClientClosing(c) ==
    /\ frontend.clients[c] = "open"
    /\ frontend' = [frontend EXCEPT !.clients[c] = "closing", !.sent = <<>>]
    /\ Did("frontend.closing", {})
    /\ UNCHANGED frontendFrame

\* onMQTTPublishMessage (L481-499), the handler subscribed at L428.
OnMQTTPublishMessage(topic, payload, retain) ==
    /\ Len(frontend.published) < MaxPublished
    /\ LET key == Substring(topic, Len(MqttBaseTopic) + 1)
           value == ParseJSON(payload, payload)
       IN frontend' = [frontend EXCEPT
            !.published = Append(@, [topic |-> topic, payload |-> payload,
                                     retain |-> retain]),
            !.retainedMessages = IF TopicUnderBase(topic) /\ retain
                                 THEN ObjSet(@, key, value) ELSE @,
            !.sent = IF TopicUnderBase(topic) /\ frontend.wss
                     THEN SendTo(OpenClients, <<key, value>>) ELSE <<>>]
    /\ Did("frontend.published", {})
    /\ UNCHANGED frontendFrame

FrontendInit ==
    /\ tracked = FALSE
    /\ Constructed([legacy_api |-> FALSE, homeassistant |-> FALSE,
                    last_seen |-> FALSE, cache_send |-> FALSE],
                   DefaultPubSettings)

FrontendNext ==
    \/ FrontendStart
    \/ \E c \in WsClients : OnWebSocketConnection(c)
    \/ \E c \in WsClients : ClientClosing(c)
    \/ \E topic \in PublishedTopics, payload \in PublishedPayloads, retain \in BOOLEAN :
          OnMQTTPublishMessage(topic, payload, retain)

\* The Frontend under message-published events and client connections.
FrontendSpec == FrontendInit /\ [][FrontendNext]_vars

\* The life cycle of one Controller: start(), stop(), the disable the reset
\* policy of start() makes, and the environment.
Next == StartNext \/ StopNext \/ DisableNext \/ EnvNext

Spec == Init /\ [][Next]_vars

\* The extension list under the requests extensions make at run time, from
\* the moment start() is called; no shutdown.
ToggleSpecNext == StartNext \/ DisableNext \/ ToggleNext

ToggleSpec == Init /\ [][ToggleSpecNext]_vars

\* Startup when no stop and no restart is requested, every awaited call returning or
\* throwing in the end, and adapter start and broker connect not failing
\* for ever.
NextNoStop ==
    \/ StartNext
    \/ DisableNext
    \/ OnLastSeenChanged
    \/ \E ok \in BOOLEAN : ConnectMqttBroker(ok)

StartupFairness ==
    /\ WF_vars(VersionDone)
    /\ WF_vars(ZigbeeBackoffDone)
    /\ WF_vars(ZigbeeStartFail \/ \E result \in {"normal", "reset"} : ZigbeeStartOk(result))
    /\ SF_vars(\E result \in {"normal", "reset"} : ZigbeeStartOk(result))
    /\ WF_vars(\E ok \in BOOLEAN : PermitJoinDone(ok))
    /\ WF_vars(MqttBackoffDone)
    /\ WF_vars(\E ok \in BOOLEAN : MqttDisconnectDone(ok))
    /\ WF_vars(MqttConnectFail \/ MqttConnectOk)
    /\ SF_vars(MqttConnectOk)
    /\ WF_vars(\E ok \in BOOLEAN : StartHookDone(ok))

LiveSpec == Init /\ [][NextNoStop]_vars /\ StartupFairness

\* ================================================================ claims
\* The operations start() consists of.
StartupOps == {"start", "start.version", "start.zigbeeRetry", "start.zigbeeFail",
               "start.zigbeeOk", "start.permitJoin", "start.mqttRetry",
               "start.mqttDisconnect", "start.mqttFail", "start.mqttOk",
               "start.hook"}

\* Every variable but `step`.
allButStep == <<ctlVars, pubVars>>

StatusEdges == {<<"stopped", "starting">>, <<"starting", "started">>,
                <<"starting", "stopping">>, <<"started", "stopping">>,
                <<"stopping", "stopped">>}

\* C1 (as claimed): the status changes only along the edges stopped->starting,
\* starting->started, starting->stopping, started->stopping and
\* stopping->stopped.
C1_StatusEdges == [][status' # status => <<status, status'>> \in StatusEdges]_vars

\* C2: start() called while the status is not 'stopped' changes nothing and
\* makes no call: no State start, adapter start, permit-join, broker connect
\* or extension start.
C2_StartNoop ==
    [][(step'.op = "start" /\ status # "stopped")
         => (step'.calls = {} /\ UNCHANGED allButStep)]_vars

\* C2 witness: a start() has just been refused on a started Controller.
C2_Witness == step.op = "start" /\ step.calls = {} /\ status = "started"

\* C3: stop() called while the status is 'stopping' changes nothing and makes
\* no call: no stop hook, State stop, broker disconnect, adapter stop or exit
\* callback.
C3_StopNoop ==
    [][(step'.op = "stop" /\ status = "stopping")
         => (step'.calls = {} /\ UNCHANGED allButStep)]_vars

\* C3 witness: a stop() has just been refused while a shutdown, still short
\* of its exit callback, is running.
C3_Witness ==
    /\ step.op = "stop" /\ step.calls = {} /\ status = "stopping"
    /\ \E s \in Slots : stops[s].pc \in {"extStop", "disc", "zbStop"}

CancelledStartupStep ==
    stopAt \in {"zbBackoff", "mqttBackoff"}
      => /\ startPc' \in {stopAt, "returned"}
         /\ status' # "started"
         /\ step'.op \in StartupOps
              => step'.calls \cap {"zigbee.start", "permitJoin", "mqtt.disconnect",
                                   "mqtt.connect", "hook.start"} = {}

\* C4: once a stop has been accepted while start() waits out the backoff of
\* the adapter loop or of the broker loop, start() stays in that wait or has
\* returned, makes no further adapter start, broker connect or start hook
\* call, and the status never becomes 'started'.
C4_CancelledInBackoff == [][CancelledStartupStep]_vars

\* C4 witness: the stop came during the broker loop's backoff and start()
\* has returned at its status check.
C4_Witness == stopAt = "mqttBackoff" /\ startPc = "returned" /\ step.op = "start.mqttRetry"

\* C5 (as claimed): once the exit callback has been invoked the status is
\* 'stopped'.
C5_StoppedAfterExit == exits # <<>> => status = "stopped"

\* C6: with no stop requested, start() retries after every failed adapter start
\* and every failed broker connect, and once it has been called the status
\* reaches 'started'.
C6_StartupNeverGivesUp ==
    /\ (startPc = "zbBackoff") ~> (startPc = "zbStart")
    /\ (startPc = "mqttBackoff") ~> (startPc \in {"mqttDisc", "mqttConn", "extStart", "done"})
    /\ (startPc = "version") ~> (status = "started")

\* C6 witness: adapter start and broker connect have both failed more than
\* once, and start() is past both loops.
C6_Witness == zigbeeFails >= 2 /\ mqttFails >= 2 /\ startPc = "extStart"

\* C7: in one startup the adapter-start failure is error-logged once, at the
\* first failure, however many failures follow; so is, by a count of its
\* own, the broker-connect failure.
C7_LoggedOnce ==
    /\ zigbeeErrLogs = (IF zigbeeFails > 0 THEN 1 ELSE 0)
    /\ mqttErrLogs = (IF mqttFails > 0 THEN 1 ELSE 0)
    /\ step.op = "start.zigbeeFail" => (("logger.error" \in step.calls) <=> zigbeeFails = 1)
    /\ step.op = "start.mqttFail" => (("logger.error" \in step.calls) <=> mqttFails = 1)

\* C7 witness: a second broker-connect failure, after two adapter-start
\* failures, with one error logged for each kind.
C7_Witness ==
    /\ zigbeeFails >= 2 /\ zigbeeErrLogs = 1
    /\ mqttFails >= 2 /\ mqttErrLogs = 1
    /\ step.op = "start.mqttFail"

\* C8 (as claimed): start() makes none of the calls of its steps 2 to 6
\* (adapter start, reset policy, permit-join, broker connect) unless the
\* status is 'starting'.
C8_StepsRecheckStatus ==
    [][(status # "starting" /\ step'.op \in StartupOps)
         => step'.calls \cap {"zigbee.start", "settings.set", "permitJoin",
                              "mqtt.connect"} = {}]_vars

CanonicalStartLog(exts) ==
    <<Milestone("state.start"), Milestone("zigbee.start"), Milestone("permitJoin"),
      Milestone("mqtt.connected")>> \o exts \o <<Milestone("started")>>

\* C9: what start() has done is at every moment a prefix of: State start, the
\* adapter started, the permit-join call, the broker connected, the start
\* hooks of the extensions in the order of the list as it was when the broker
\* was connected, status 'started'; the first hook is invoked with the
\* adapter started and the broker connected.
C9_StartupOrder ==
    /\ IsPrefix(startLog, CanonicalStartLog(startExts))
    /\ Milestone("started") \in Range(startLog) => startLog = CanonicalStartLog(startExts)
    /\ (step.op \in StartupOps /\ "hook.start" \in step.calls)
         => /\ startResult # "none"
            /\ startIdx = 1 => (mqttConnected /\ startExts = extensions)

\* C9 witness: the status has reached 'started' after the hooks of three
\* extensions.
C9_Witness ==
    /\ status = "started"
    /\ Len(startExts) = 3
    /\ startLog = CanonicalStartLog(startExts)

ThrowingHookStep ==
    /\ (step'.op = "start.hook" /\ "logger.error" \in step'.calls)
       => IF startIdx < Len(startExts)
          THEN /\ "hook.start" \in step'.calls
               /\ startLog' = Append(startLog, startExts[startIdx + 1])
          ELSE status' = "started"
    /\ (step'.op = "stop.hook" /\ "logger.error" \in step'.calls)
       => \E s \in Slots :
            /\ stops[s].pc = "extStop"
            /\ IF stops[s].idx < Len(extensions)
               THEN /\ "hook.stop" \in step'.calls
                    /\ stops'[s].seen = Append(stops[s].seen, extensions[stops[s].idx + 1])
               ELSE /\ {"removeListeners", "state.stop"} \subseteq step'.calls
                    /\ stops'[s].pc \in {"disc", "done"}
    /\ (step'.op = "disable.done" /\ "logger.error" \in step'.calls)
       => \E k \in 1..Len(disabling) :
            /\ disabling' = RemoveAt(disabling, k)
            /\ extensions' = Splice1(extensions, IndexOf(extensions, disabling[k]))
            /\ disabling[k] \notin Range(extensions')

\* C10: a start hook that throws during startup is followed by the next start
\* hook of the list or, when it was the last, by status 'started'; a stop hook
\* that throws during a shutdown is followed by the next stop hook of the list
\* or, when none is left, by the rest of the shutdown; a stop hook that throws
\* during a disable is followed by the removal from the list.
C10_HookThrowIsolated == [][ThrowingHookStep]_vars

\* C10 witness: a start hook has thrown and the next one has been invoked.
C10_Witness ==
    /\ step.op = "start.hook"
    /\ {"logger.error", "hook.start"} \subseteq step.calls
    /\ startIdx = 2

\* The shutdown hooks done, the list of the active extensions filtered out
\* of what a shutdown invoked.
SeenOfActive(s) == SelectSeq(stops[s].seen, LAMBDA e : e \in Range(extensions))

\* C11 (as claimed): a shutdown that is past its stop hooks has invoked the
\* stop hook of every extension of the active list, in list order and once
\* each, before the detach of the subscriptions, State stop, the broker
\* disconnect, the adapter stop and the exit callback.
C11_ShutdownOrder ==
    \A s \in Slots :
        stops[s].pc \in {"disc", "zbStop", "done"} => SeenOfActive(s) = extensions

ExitCallbackStep ==
    "exitCallback" \in step'.calls
      => \E s \in Slots, code \in {0, 1} :
           /\ stops[s].pc \in {"extStop", "zbStop"}
           /\ stops'[s].pc = "done"
           /\ exits' = Append(exits, <<code, stops[s].reason>>)
           /\ code = 0 <=> (stops[s].pc = "zbStop" /\ "logger.info" \in step'.calls)
           /\ code = 1 <=> "logger.error" \in step'.calls
           /\ \A t \in Slots \ {s} : stops'[t] = stops[t]

\* C12: the exit callback is invoked with the reason its stop() was called
\* with; with code 0 when adapter stop has returned (State stop having
\* returned before), whatever the stop hooks and the broker disconnect did,
\* and with code 1 when State stop or adapter stop threw.
C12_ExitCodeAndReason == [][ExitCallbackStep]_vars

\* C12 witness: a restart's shutdown has ended with code 0 and the restart
\* reason although the broker disconnect failed.
C12_Witness ==
    /\ step.op = "stop.zigbee"
    /\ exits = <<<<0, indexJsRestart>>>>
    /\ mqttConnected
    /\ status = "stopping"

\* A shutdown with every optional extension configured, every awaited call
\* of stop() returning or throwing in the end.
InitAllOn ==
    /\ Init
    /\ settings = [legacy_api |-> TRUE, homeassistant |-> TRUE,
                   last_seen |-> TRUE, cache_send |-> TRUE]

ShutdownFairness ==
    \A s \in Slots :
        /\ WF_vars(\E ok \in BOOLEAN, stateOk \in BOOLEAN : StopHookDone(s, ok, stateOk))
        /\ WF_vars(\E ok \in BOOLEAN : StopDisconnectDone(s, ok))
        /\ WF_vars(\E ok \in BOOLEAN : StopZigbeeDone(s, ok))

ShutdownSpec == InitAllOn /\ [][Next]_vars /\ ShutdownFairness

\* C13: every shutdown that was accepted invokes the exit callback in the
\* end, whichever of its calls throw.
C13_ShutdownCompletes ==
    /\ \A s \in Slots :
         (stops[s].pc \in {"extStop", "disc", "zbStop"}) ~> (stops[s].pc = "done")
    /\ [](Len(exits) = Cardinality({s \in Slots : stops[s].pc = "done"}))

\* C13 witness: a shutdown in which adapter stop threw has invoked the exit
\* callback.
C13_Witness ==
    /\ step.op = "stop.zigbee"
    /\ {"logger.error", "exitCallback"} \subseteq step.calls
    /\ Len(exits) = 1

RestartStep ==
    /\ step'.op = "adapterDisconnected" => "restartCallback" \in step'.calls
    /\ ("exitCallback" \in step'.calls /\ exits'[Len(exits')][2] = indexJsRestart)
         => "process.exit" \notin step'.calls
    /\ "new Controller" \in step'.calls
         => \E i \in 1..Len(exits') : exits'[i][2] = indexJsRestart

\* C14 (as claimed): an adapter-disconnected notification invokes the restart
\* callback; the exit callback invoked with the restart reason does not end
\* the process; and a new Controller is constructed only once the exit
\* callback of this one has been invoked with the restart reason.
C14_RestartIsStopThenStart == [][RestartStep]_vars


\* C15: a disable of a type with an active instance invokes the stop hook
\* and, when that hook has returned or thrown, removes exactly that instance
\* from the list, every other extension keeping its place in the order; a
\* disable of a type with no active instance invokes no hook and leaves the
\* list alone.
DisableStep ==
    /\ step'.op = "disable.done" =>
           \E k \in 1..Len(disabling) :
               /\ disabling' = RemoveAt(disabling, k)
               /\ disabling[k] \in Range(extensions)
               /\ extensions' = SelectSeq(extensions, LAMBDA e : e # disabling[k])
    /\ step'.op = "disable" =>
           LET call == toggleLog'[Len(toggleLog')]
           IN  /\ extensions' = extensions
               /\ call[3] <=> "hook.stop" \in step'.calls
               /\ call[3] <=> \E e \in Range(extensions) : TypeOf(e) = call[2]
               /\ ~call[3] => disabling' = disabling

C15_DisableRemovesThatInstance == [][DisableStep]_vars

\* C16: an enable with a name outside the catalog fails on the assertion,
\* adds nothing to the list and invokes no start hook; an enable with a
\* catalog name appends one new instance of that type at the end of the list
\* and invokes the start hook.
EnableStep ==
    step'.op = "enable" =>
        LET name == toggleLog'[Len(toggleLog')][2]
        IN  IF name \in AllExtensions
            THEN /\ Len(extensions') = Len(extensions) + 1
                 /\ SubSeq(extensions', 1, Len(extensions)) = extensions
                 /\ TypeOf(extensions'[Len(extensions')]) = name
                 /\ extensions'[Len(extensions')] \notin Range(extensions)
                 /\ step'.calls = {"hook.start"}
            ELSE /\ extensions' = extensions
                 /\ "assert" \in step'.calls
                 /\ "hook.start" \notin step'.calls

C16_EnableAssertsOrAppends == [][EnableStep]_vars

C16_Witness ==
    /\ step.op = "enable"
    /\ step.calls = {"assert"}
    /\ toggleLog = <<<<"enable", UnknownName, FALSE>>>>
    /\ extensions = InitialExtensions(settings)

\* C17: the active list never holds two instances of one extension type.
C17_OneInstancePerType ==
    \A i, j \in 1..Len(extensions) :
        i # j => TypeOf(extensions[i]) # TypeOf(extensions[j])

\* C18: when the calls made so far are a disable of an active type followed
\* by an enable of the same type, and the disable has finished, the list
\* holds exactly one instance of that type, it is the instance the enable
\* constructed, and the enable invoked the start hook.
ReenableStep ==
    \A n \in AllExtensions :
        (/\ toggleLog' = <<<<"disable", n, TRUE>>, <<"enable", n, TRUE>>>>
         /\ disabling' = <<>>) =>
            /\ Cardinality({i \in 1..Len(extensions') : TypeOf(extensions'[i]) = n}) = 1
            /\ <<n, 0>> \notin Range(extensions')
            /\ step'.op = "enable" => "hook.start" \in step'.calls

C18_DisableThenEnable == [][ReenableStep]_vars

C18_Witness ==
    /\ toggleLog = <<<<"disable", "BridgeLegacy", TRUE>>, <<"enable", "BridgeLegacy", TRUE>>>>
    /\ disabling = <<>>
    /\ step.op = "enable"
    /\ step.calls = {"hook.start"}
    /\ <<"BridgeLegacy", 1>> \in Range(extensions)

\* C19: when the entity's settings mark attribute A as filtered and the
\* payload of a publishEntityState call contains A, nothing the call emits
\* holds key A: not the JSON document, not a per-attribute message, not the
\* message of the publish-entity-state event.
C19_FilteredNeverEmitted ==
    \A r \in RunIds :
        \A a \in Range(FilteredAttributes(runs[r].entity)) :
            ObjHas(runs[r].payload, a) =>
                \A j \in 1..Len(runs[r].out) :
                    LET x == runs[r].out[j]
                    IN  IF x.kind = "attribute" THEN x.path[1] # a
                        ELSE ~ObjHas(x.body, a)

\* C20: a publishEntityState call that has ended has emitted exactly one
\* publish-entity-state event, carrying the entity, the final message and
\* the change reason, as the last thing it emitted; a call still awaiting
\* a publish has emitted none yet.
C20_OneEventPerCall ==
    \A r \in RunIds :
        LET out == runs[r].out
            events == {j \in 1..Len(out) : out[j].kind = "event"}
        IN  /\ runs[r].pc \in {"done", "threw"} =>
                /\ events = {Len(out)}
                /\ out # <<>>
                /\ out[Len(out)] =
                       StateEvent(runs[r].entity, runs[r].message, runs[r].reason)
            /\ runs[r].pc \in {"json", "attr"} => events = {}

\* C21: pipeline runs for one entity never overlap: when a run starts for
\* entity E (its payload is merged into the cache), no other run for E is
\* still awaiting a publish, that is, every earlier run for E has emitted
\* its event; the runs of the replay and of the last-seen handler included.
RunStartStep ==
    \A r \in RunIds :
        (runs[r].pc = "idle" /\ runs'[r].pc # "idle") =>
            \A q \in RunIds \ {r} :
                runs[q].pc \in {"json", "attr"} => runs[q].entity # runs'[r].entity

C21_RunsNeverOverlap == [][RunStartStep]_vars

\* C22: a throwing adjust hook is isolated: no publishEntityState call ends
\* on the exception of a hook; every call goes on to its publishes (when
\* the message has a key) and ends with the publish-entity-state event.
C22_AdjustThrowIsolated ==
    \A r \in RunIds :
        /\ runs[r].pc # "threw"
        /\ runs[r].pc = "done" =>
               /\ runs[r].out # <<>>
               /\ runs[r].out[Len(runs[r].out)].kind = "event"
               /\ runs[r].message # <<>> => Len(runs[r].out) > 1

\* The messages the flattening rule gives for one entry k: v of a message,
\* as <<topic suffix, body>>, written out for each value of FlattenValues.
ExpectedLeaves(k, v) ==
    IF v = Str("ON") THEN <<<<k, "ON">>>>
    ELSE IF v = Num(10) THEN <<<<k, "10">>>>
    ELSE IF v \in {Null, Undefined} THEN <<<<k, "">>>>
    ELSE IF v = Arr(<<Num(1), Str("x")>>) THEN <<<<k, "1,x">>>>
    ELSE IF v = Obj(<<<<"r", Num(10)>>, <<"g", Num(20)>>, <<"b", Num(30)>>>>)
    THEN IF k = "color" THEN <<<<k, "10,20,30">>>>
         ELSE <<<<k \o "-r", "10">>, <<k \o "-g", "20">>, <<k \o "-b", "30">>>>
    ELSE <<<<k \o "-hue", "5">>, <<k \o "-xy-x", "1">>>>

RECURSIVE ExpectedMessages(_)
ExpectedMessages(m) ==
    IF m = <<>> THEN <<>>
    ELSE ExpectedLeaves(m[1][1], m[1][2]) \o ExpectedMessages(Tail(m))

\* C23: in output mode 'attribute' a finished run has published exactly one
\* message per leaf of its message, in order, at <entity>/<key path joined
\* by hyphens>: the colour object {r,g,b} as 'r,g,b', an array joined by
\* commas, null and undefined as an empty body, a nested object through its
\* leaves only; {color:{r:10,g:20,b:30}, state:'ON'} gives 'color' with
\* '10,20,30' and 'state' with 'ON'.
C23_OneMessagePerLeaf ==
    \A r \in RunIds :
        (runs[r].pc = "done" /\ pubSettings.output = "attribute"
         /\ runs[r].payload \in FlattenPayloads) =>
            LET msgs == SelectSeq(runs[r].out, LAMBDA x : x.kind = "attribute")
                want == ExpectedMessages(runs[r].message)
            IN  /\ Len(msgs) = Len(want)
                /\ \A i \in 1..Len(msgs) :
                       /\ msgs[i].topic = runs[r].entity \o "/" \o want[i][1]
                       /\ msgs[i].body = want[i][2]

C23_Witness ==
    /\ runs["r1"].pc = "done"
    /\ runs["r1"].payload =
           <<<<"color", Obj(<<<<"r", Num(10)>>, <<"g", Num(20)>>, <<"b", Num(30)>>>>)>>,
             <<"state", Str("ON")>>>>
    /\ Len(runs["r1"].out) = 3
    /\ runs["r1"].out[1].topic = "g1/color"
    /\ runs["r1"].out[1].body = "10,20,30"
    /\ runs["r1"].out[2].topic = "g1/state"
    /\ runs["r1"].out[2].body = "ON"

\* C24: a run that has reached its end has handed to the broker, when its
\* final message has a key: in mode 'json' the JSON document at the
\* entity's topic and nothing else; in mode 'attribute' one message per
\* leaf and no JSON document; in mode 'attribute_and_json' the JSON
\* document first and then one message per leaf; and nothing at all in any
\* mode when the final message has no key.
C24_OutputModes ==
    \A r \in RunIds :
        runs[r].pc = "done" =>
            LET m == runs[r].message
                wire == SelectSeq(runs[r].out, LAMBDA x : x.kind # "event")
                doc == JsonDoc(runs[r].entity, m)
                attrs == [i \in 1..Len(runs[r].leaves) |->
                             AttrMsg(runs[r].entity, runs[r].leaves[i])]
            IN  IF m = <<>> THEN wire = <<>>
                ELSE IF pubSettings.output = "json" THEN wire = <<doc>>
                ELSE IF pubSettings.output = "attribute" THEN wire = attrs
                ELSE wire = <<doc>> \o attrs

C24_Witness ==
    \E r \in RunIds :
        /\ runs[r].pc = "done"
        /\ pubSettings.output = "attribute_and_json"
        /\ Len(runs[r].out) >= 4
        /\ runs[r].out[1].kind = "json"
        /\ runs[r].out[1].topic = runs[r].entity
        /\ runs[r].out[2].kind = "attribute"
        /\ runs[r].out[3].kind = "attribute"

\* A bag seen key by key: the value of each key, Absent for a key the
\* bag does not have.
MergeKeys == {"state", "battery"}

Absent == <<"absent">>

View(o) == [k \in MergeKeys |-> IF ObjHas(o, k) THEN ObjGet(o, k) ELSE Absent]

\* The key-wise union of two bags, the second overriding the first.
UnionView(a, b) == [k \in MergeKeys |-> IF b[k] # Absent THEN b[k] ELSE a[k]]

\* The bag of the entity of run r once r has merged its payload: what the
\* cache held at construction, the payload of the earlier run for the same
\* entity if there is one, then the payload of r.
BagAfter(r) ==
    LET e == runs[r].entity
        first == RunOrder[1]
        before == IF r # first /\ runs[first].entity = e
                  THEN UnionView(View(InitialCache[e]), View(runs[first].payload))
                  ELSE View(InitialCache[e])
    IN  UnionView(before, View(runs[r].payload))

\* C25: after the runs so far, the cached bag of an entity is the key-wise
\* union of what it held and of the payloads merged for it, in order, a
\* later payload overriding an earlier one on a common key, and a key in
\* none of them has no value; the message of a run starts from that full
\* bag when cache_state is on and from the payload alone when it is off
\* (less the entity's filtered attributes).
C25_CacheMerge ==
    \A r \in RunIds :
        runs[r].pc # "idle" =>
            LET e == runs[r].entity
                last == \A q \in RunIds \ {r} :
                            (runs[q].pc # "idle" /\ runs[q].entity = e) => q = RunOrder[1]
                base == IF pubSettings.cache_state THEN BagAfter(r)
                        ELSE View(runs[r].payload)
            IN  /\ last => View(cache[e]) = BagAfter(r)
                /\ \A i, j \in 1..Len(cache[e]) :
                       /\ cache[e][i][1] \in MergeKeys
                       /\ i # j => cache[e][i][1] # cache[e][j][1]
                /\ \A k \in MergeKeys :
                       View(runs[r].message)[k] =
                           IF k \in Range(FilteredAttributes(e)) THEN Absent
                           ELSE base[k]

C25_Witness ==
    /\ runs["r1"].entity = "g1"
    /\ runs["r2"].entity = "g1"
    /\ runs["r1"].payload = <<<<"state", Str("b")>>, <<"battery", Str("a")>>>>
    /\ runs["r2"].payload = <<<<"battery", Str("b")>>>>
    /\ cache["g1"] = <<<<"state", Str("b")>>, <<"battery", Str("b")>>>>
    /\ pubSettings.cache_state
    /\ runs["r2"].message = cache["g1"]
\* C26: when an event is emitted, a handler registered under a key K that
\* throws does not keep a handler registered under another key K2 for the
\* same event kind from being invoked; and no emit invokes a handler that
\* was registered under a key when removeListeners was called for that key.
EmitStep ==
    step'.op = "emit" =>
        /\ \A s, t \in Range(bus.subs) :
              (s.kind = bus'.kind /\ t.kind = bus'.kind /\ s.key # t.key /\ s.throws)
                  => t \in Range(bus'.invoked)
        /\ \A h \in Range(bus'.invoked) : h \notin bus.removed

C26_ThrowIsolatedAndRemoved == [][EmitStep]_vars

\* An emit has invoked a handler of one key after a throwing handler of
\* another key, a handler of that kind having been removed before.
C26_Witness ==
    /\ step.op = "emit"
    /\ \E i, j \in 1..Len(bus.invoked) :
          i < j /\ bus.invoked[i].throws /\ bus.invoked[i].key # bus.invoked[j].key
    /\ \E h \in bus.removed : h.kind = bus.kind

\* C27: with the broker not connected, deleting an id that does not resolve
\* to a Device answers 404 and changes nothing and emits no event; deleting
\* an existing Device first removes it from the network and, when that has
\* succeeded, removes it from the settings, then from the State cache, then
\* emits one entity-removed event, State having no entry for it afterwards;
\* when the network removal fails nothing is cleaned up and no event is
\* emitted.
DeleteStep ==
    \A q \in RequestIds :
        LET old == requests[q]
            new == requests'[q]
        IN (new # old /\ new.route = "deleteDevice" /\ ~new.connected) =>
              IF old.pc = "free"
              THEN /\ store' = store
                   /\ IF new.id \in store.zigbee
                      THEN new.pc = "removeFromNetwork" /\ new.log = <<"removeFromNetwork">>
                      ELSE new.pc = "done" /\ new.code = 404 /\ new.log = <<>>
              ELSE /\ old.pc = "removeFromNetwork"
                   /\ new.pc = "done"
                   /\ \/ /\ new.code = 200
                         /\ new.log = <<"removeFromNetwork", "settings.removeDevice",
                                        "state.remove", "emitDeviceRemoved">>
                         /\ new.id \notin store'.settings
                         /\ new.id \notin store'.state
                         /\ store'.events = Append(store.events, new.id)
                      \/ /\ new.code # 200
                         /\ new.log = <<"removeFromNetwork">>
                         /\ store' = store

C27_DeleteDevice == [][DeleteStep]_vars

\* One delete of a cached device has gone through to its event, one delete
\* has failed at the network removal or was for an unknown id.
C27_Witness ==
    \E q, t \in RequestIds :
        /\ requests[q].route = "deleteDevice" /\ ~requests[q].connected
        /\ requests[q].pc = "done" /\ requests[q].code = 200
        /\ requests[q].id \in CachedDevices
        /\ requests[q].id \notin store.state
        /\ store.events = <<requests[q].id>>
        /\ requests[t].route = "deleteDevice" /\ ~requests[t].connected
        /\ requests[t].pc = "done" /\ requests[t].code \in {404, 500}

\* C28: adding an id to the block-list always records the id and answers
\* OK, whatever becomes of the automatic removal of the device.
C28_BlockListAlwaysOk ==
    \A q \in RequestIds :
        (requests[q].route = "addBlockList" /\ requests[q].pc = "done")
            => requests[q].id \in store.blocklist /\ requests[q].code = 200

\* C29: while a restart is between its request and the creation of the
\* replacement Controller, or the gateway is quitting, a management request
\* is answered with 503 and its handler does not run.
MidRestart == \E r \in RestartIds : restarts[r].pc = "stop"

RequestStep ==
    (step'.op = "getDevices" /\ (MidRestart \/ stopping)) => step'.calls = {"503"}

C29_RefusedWhileRestarting == [][RequestStep]_vars

ReplayedAsOf ==
    IF settings.cache_send /\ pubSettings.cache_state
           /\ Milestone("started") \in Range(startLog)
    THEN replayed = Devices \cap CachedDevices
    ELSE replayed = {}

StartedStep ==
    (status # "started" /\ status' = "started") =>
        IF settings.cache_send /\ pubSettings.cache_state
        THEN \A e \in Devices \cup Groups :
                 LET started == {r \in RunIds : runs[r].pc = "idle" /\ runs'[r].pc # "idle"
                                                  /\ runs'[r].entity = e}
                 IN /\ Cardinality(started) = IF e \in Devices \cap CachedDevices THEN 1 ELSE 0
                    /\ \A r \in started : runs'[r].payload = cache[e]
        ELSE runs' = runs

C31_ResetDisablesLegacy ==
    /\ toggleLog # <<>> =>
          /\ ~settings.legacy_api
          /\ status = "started" =>
                /\ FindByName(extensions, "BridgeLegacy") = <<>>
                /\ \A i \in 1..Len(startLog) : TypeOf(startLog[i]) # "BridgeLegacy"
    /\ toggleLog = <<>> => extensions = InitialExtensions(settings)

\* C32: once a stop request has been accepted (the status is 'stopping'),
\* no step invokes the start hook of an extension, sets the status to
\* 'started' or replays a cached state.
StoppingStep ==
    status = "stopping" =>
        /\ "hook.start" \notin step'.calls
        /\ status' # "started"
        /\ replayed' = replayed

C32_StopCancelsStartup == [][StoppingStep]_vars

\* C33: after a shutdown has completed (its exit callback has been
\* invoked) the Controller holds no subscription, neither to
\* adapter-disconnected nor to last-seen-changed, so neither handler can
\* be invoked any more.
C33_NoSubscriptionAfterShutdown ==
    (\E s \in Slots : stops[s].pc = "done") => ~adapterSub /\ ~lastSeenSub

\* C34: the exit callback of the Controller is invoked at most once, and
\* the shutdowns invoke the stop hook of each extension instance at most
\* once between them.
C34_ExitAndStopHooksOnce ==
    /\ Len(exits) <= 1
    /\ \A s, t \in Slots : s # t => Range(stops[s].seen) \cap Range(stops[t].seen) = {}
    /\ \A s \in Slots : \A i, j \in 1..Len(stops[s].seen) :
          i # j => stops[s].seen[i] # stops[s].seen[j]

\* C35: at most one Controller is live (constructed, its shutdown not
\* completed) at any time, and a step that makes index.js hold a new
\* Controller finds the shutdown of the one it held completed.
LiveControllers == {n \in ControllerIds : instances[n].status # "none" /\ ~instances[n].exit}

ReplaceStep == controller' # controller => instances[controller].exit

C35_OneLiveController == [](Cardinality(LiveControllers) <= 1) /\ [][ReplaceStep]_vars

\* C36: after a quit request (handleQuit has raised stopping) no new
\* Controller is constructed and started: the process does not live on
\* with a new Controller.
QuitStep == stopping => controller' = controller

C36_QuitEndsProcess == [][QuitStep]_vars

\* C37: the step in which a disable of type T takes its instance out of
\* the active list removes no instance of another type.
DisableDoneStep ==
    step'.op = "disable.done" =>
        \E k \in 1..Len(disabling) :
            /\ disabling' = RemoveAt(disabling, k)
            /\ \A x \in Range(extensions) \ Range(extensions') :
                  TypeOf(x) = TypeOf(disabling[k])

C37_DisableRemovesOnlyItsType == [][DisableDoneStep]_vars

\* C38: the retained store holds, for each topic under the base topic, kept
\* without the base prefix, the (decoded) payload of the most recent
\* retained message on that topic, and nothing else; a message that has no
\* retain flag or is not under the base topic leaves the store as it was,
\* and one not under the base topic is sent to no client.
UnderBase(t) ==
    /\ Len(t) > Len(MqttBaseTopic)
    /\ \A i \in 1..Len(MqttBaseTopic) : t[i] = MqttBaseTopic[i]
    /\ t[Len(MqttBaseTopic) + 1] = "/"

WithoutBase(t) == [i \in 1..(Len(t) - Len(MqttBaseTopic) - 1) |-> t[i + Len(MqttBaseTopic) + 1]]

Decoded(p) == IF p = "10" THEN <<"num", 10>> ELSE <<"str", p>>

\* The retained events of the history that are under the base topic.
RetainedAt ==
    {i \in 1..Len(frontend.published) :
        frontend.published[i].retain /\ UnderBase(frontend.published[i].topic)}

StoreIsLastRetained ==
    /\ \A j \in 1..Len(frontend.retainedMessages) :
          \E i \in RetainedAt :
              frontend.retainedMessages[j][1] = WithoutBase(frontend.published[i].topic)
    /\ \A j, k \in 1..Len(frontend.retainedMessages) :
          j # k => frontend.retainedMessages[j][1] # frontend.retainedMessages[k][1]
    /\ \A i \in RetainedAt :
          LET t == frontend.published[i].topic
              last == CHOOSE m \in RetainedAt :
                          /\ frontend.published[m].topic = t
                          /\ \A n \in RetainedAt :
                                frontend.published[n].topic = t => n <= m
          IN \E j \in 1..Len(frontend.retainedMessages) :
                 frontend.retainedMessages[j] =
                     <<WithoutBase(t), Decoded(frontend.published[last].payload)>>

PublishedStep ==
    step'.op = "frontend.published" =>
        LET e == frontend'.published[Len(frontend'.published)]
        IN /\ (~e.retain \/ ~UnderBase(e.topic)) =>
                 frontend'.retainedMessages = frontend.retainedMessages
           /\ ~UnderBase(e.topic) => frontend'.sent = <<>>

C38_RetainedStore == []StoreIsLastRetained /\ [][PublishedStep]_vars

\* A retained message on z/a has been replaced by a later one, a retained
\* message outside the base topic has been published, and a client is sent
\* the store on connecting.
C38_Witness ==
    /\ Len(frontend.published) = 3
    /\ frontend.published[1] = [topic |-> <<"z", "/", "a">>, payload |-> "ON", retain |-> TRUE]
    /\ frontend.published[2] = [topic |-> <<"z", "x", "/", "a">>, payload |-> "ON", retain |-> TRUE]
    /\ frontend.published[3] = [topic |-> <<"z", "/", "a">>, payload |-> "10", retain |-> TRUE]
    /\ frontend.retainedMessages = <<<<<<"a">>, <<"num", 10>>>>>>
    /\ step.op = "frontend.connection"
    /\ frontend.sent[1] = <<"c1", <<"a">>, <<"num", 10>>>>

====
